---- MODULE Spec2Model ----
(***************************************************************************)
(* Interaction, animation and display-mode state machine of the wireframe  *)
(* polyhedron component.  The repository holds four revisions of the same  *)
(* component; the model runs any one of them, chosen in Init:              *)
(*   "v2"    Icosahedron 2.0.0      src/unnamed/part_000                   *)
(*   "v30js" Polyhedron 3.0.0 (JS)  src/js/polyhedron.js, lines 1-871      *)
(*   "v30ts" Polyhedron 3.0.0 (TS)  src/src/polyhedron.ts                  *)
(*   "v31"   Polyhedron 3.1.0       src/js/polyhedron.js, lines 872-1468   *)
(*                                                                         *)
(* Angles are integers: one unit is 1/1000 radian divided by               *)
(* 20^MaxCoast, so that MaxCoast multiplications by momentumDamping        *)
(* (0.95 = 19/20) of a drag velocity are exact.                            *)
(*                                                                         *)
(* A handle (animationId, resumeTimer, hint.dataset.timerId) is "null",    *)
(* "live" (it names a callback the host still holds) or "stale" (it names  *)
(* a callback that has run or was cancelled).                              *)
(***************************************************************************)
EXTENDS Integers, Sequences, FiniteSets, TLC

\* ------------------------------------------------------------------ bounds
MaxCoast == 1
MaxEvents == 3
MaxFrames == 2
MaxHide == 1
MaxSetConfigs == 1
MaxSceneFrames == 2

\* ------------------------------------------------------- program constants
DRAG_THRESHOLD == 5
DRAG_THRESHOLD_SQ == 25
DampingNum == 19
DampingDen == 20

Versions == {"v2", "v30js", "v30ts", "v31"}

\* Pointer positions (clientX, clientY) the host may report: where a gesture
\* may begin, and where a move may lead.  <<3, 4>> is at distance 5 of the
\* origin, <<6, 8>> at distance 10.
DownPositions == {<<0, 0>>, <<3, 4>>}

Positions == {<<0, 0>>, <<3, 4>>, <<6, 8>>}

RECURSIVE Pow(_, _)
Pow(b, n) == IF n = 0 THEN 1 ELSE b * Pow(b, n - 1)

\* Integer units per 1/1000 radian.
Unit == Pow(DampingDen, MaxCoast)

\* config.dragSensitivity of DEFAULT_CONFIG (0.01 in 2.0.0, 0.008 since 3.0.0).
DragSensitivity(v) == (IF v = "v2" THEN 10 ELSE 8) * Unit

\* config.autoRotation of DEFAULT_CONFIG.
AutoRotation(v) ==
  IF v = "v2" THEN [x |-> 8 * Unit, y |-> 12 * Unit, z |-> 5 * Unit]
              ELSE [x |-> 6 * Unit, y |-> 10 * Unit, z |-> 4 * Unit]

\* The rotation the component starts with, and destroy resets to.
InitialRotation(v) ==
  IF v = "v2" THEN [x |-> 0, y |-> 0, z |-> 0]
              ELSE [x |-> 500 * Unit, y |-> 300 * Unit, z |-> 0]

\* The `state` object (3.1.0: the module-level lets) after construction.
InitialState(v) ==
  [isDragging |-> FALSE, wasDragging |-> FALSE, didMove |-> FALSE,
   isAutoRotating |-> TRUE,
   lastPointer |-> <<0, 0>>, pointerDownPos |-> <<0, 0>>,
   velocity |-> [x |-> 0, y |-> 0],
   rotation |-> InitialRotation(v),
   resumeTimer |-> "null"]

\* ------------------------------------------------------------ display mode
Modes == <<"inner", "outer", "both">>

ModeSet == {Modes[i] : i \in 1..Len(Modes)}

\* Array.prototype.indexOf: the 0-based index, -1 when absent.
IndexOf(m) ==
  IF \E i \in 1..Len(Modes) : Modes[i] = m
  THEN (CHOOSE i \in 1..Len(Modes) : Modes[i] = m) - 1
  ELSE -1

\* A plausible slip: the cycle steps backwards.
NextModeBackwards(m) == Modes[((IndexOf(m) + Len(Modes) - 1) % Len(Modes)) + 1]

\* modes[(modes.indexOf(config.displayMode) + 1) % modes.length]
NextMode(m) == Modes[((IndexOf(m) + 1) % Len(Modes)) + 1]

\* ------------------------------------------------------------ host timers
\* clearTimeout / cancelAnimationFrame: the pending callbacks left.
\* A plausible slip: the callback is not cancelled.
ClearKeepsPending(handle, count) == count

ClearTimeout(handle, count) == IF handle = "live" THEN count - 1 ELSE count

\* The handle after one of `count` pending callbacks has run.  The host runs
\* the oldest first, and the handle names the youngest.
AfterFire(handle, count) == IF handle = "live" /\ count = 1 THEN "stale" ELSE handle

\* ------------------------------------------------------------- mode label
\* showModeLabel: with a #polyhedron-hint element in the page, cancel the
\* fade timer the element remembers, show the label, start a new fade timer.
showModeLabel(w, mode) ==
  IF ~w.page.hintPresent THEN w
  ELSE [w EXCEPT
          !.page.hint = "shown",
          !.page.hintTimerId = "live",
          !.sched.fade = (IF w.page.hintTimerId # "null"
                          THEN ClearTimeout(w.page.hintTimerId, @) ELSE @) + 1]

\* cycleDisplayMode, its return value being the new config.displayMode.
cycleDisplayMode(w) ==
  LET next == NextMode(w.config.displayMode)
  IN showModeLabel([w EXCEPT !.config.displayMode = next], next)

\* setDisplayMode(mode, showLabel); 3.0.0 (JS) ignores an unknown mode.
setDisplayMode(w, mode, showLabel) ==
  LET w1 == [w EXCEPT !.config.displayMode = mode]
  IN IF showLabel THEN showModeLabel(w1, mode) ELSE w1

\* ---------------------------------------------------------- pointer events
\* onPointerDown / onDown: which revisions stop auto-rotation at once.
DownStopsAutoRotation(v) == v \in {"v2", "v31"}

\* A plausible slip: >= for >.
ExceedsOrMeetsDragThreshold(v, dx, dy) ==
  IF v = "v31" THEN dx * dx + dy * dy >= DRAG_THRESHOLD_SQ
  ELSE dx * dx + dy * dy >= DRAG_THRESHOLD * DRAG_THRESHOLD

\* distance > DRAG_THRESHOLD with distance = sqrt(dx*dx + dy*dy) (3.0.0),
\* dx*dx + dy*dy > DRAG_THRESHOLD with the constant squared (3.1.0).
ExceedsDragThreshold(v, dx, dy) ==
  IF v = "v31" THEN dx * dx + dy * dy > DRAG_THRESHOLD_SQ
  ELSE dx * dx + dy * dy > DRAG_THRESHOLD * DRAG_THRESHOLD

\* if (resumeTimer) { clearTimeout(resumeTimer); resumeTimer = null; }
CancelResume(w) ==
  IF w.state.resumeTimer = "null" THEN w
  ELSE [w EXCEPT !.sched.resume = ClearTimeout(w.state.resumeTimer, @),
                 !.state.resumeTimer = "null"]

\* A plausible slip: pointer-down forgets the pending timer.
onPointerDownKeepsTimer(v, w, pos) ==
  [w EXCEPT !.state.isDragging = TRUE,
            !.state.wasDragging = FALSE,
            !.state.didMove = FALSE,
            !.state.lastPointer = pos,
            !.state.pointerDownPos = IF v = "v2" THEN @ ELSE pos,
            !.state.isAutoRotating = IF DownStopsAutoRotation(v) THEN FALSE ELSE @]

\* onPointerDown (2.0.0, 3.0.0), onDown (3.1.0).
onPointerDown(v, w, pos) ==
  CancelResume(
    [w EXCEPT !.state.isDragging = TRUE,
              !.state.wasDragging = FALSE,
              !.state.didMove = FALSE,
              !.state.lastPointer = pos,
              !.state.pointerDownPos = IF v = "v2" THEN @ ELSE pos,
              !.state.isAutoRotating = IF DownStopsAutoRotation(v) THEN FALSE ELSE @])

\* A plausible slip: the velocity sample is measured from the down position,
\* so that it accumulates over the moves of a gesture.
onPointerMoveFromDown(v, w, p) ==
  LET s == w.state
      dx == p[1] - s.pointerDownPos[1]
      dy == p[2] - s.pointerDownPos[2]
      crossed == v # "v2" /\ ExceedsDragThreshold(v, dx, dy)
      rotates == v = "v2" \/ s.wasDragging \/ crossed
      mx == p[1] - s.lastPointer[1]
      my == p[2] - s.lastPointer[2]
  IN IF ~s.isDragging THEN w
     ELSE [w EXCEPT
             !.state.didMove = IF v = "v31" THEN TRUE ELSE @,
             !.state.wasDragging = IF v = "v2" THEN @ ELSE (@ \/ crossed),
             !.state.isAutoRotating = IF crossed THEN FALSE ELSE @,
             !.state.rotation =
                IF rotates
                THEN [@ EXCEPT !.y = @ + mx * DragSensitivity(v),
                               !.x = @ + my * DragSensitivity(v)]
                ELSE @,
             !.state.velocity =
                IF rotates
                THEN [x |-> dy * DragSensitivity(v), y |-> dx * DragSensitivity(v)]
                ELSE @,
             !.state.lastPointer = p]

\* onPointerMove (2.0.0, 3.0.0), onMove (3.1.0).  2.0.0 has no threshold:
\* every move of a pressed pointer rotates.
onPointerMove(v, w, p) ==
  LET s == w.state
      dx == p[1] - s.pointerDownPos[1]
      dy == p[2] - s.pointerDownPos[2]
      crossed == v # "v2" /\ ExceedsDragThreshold(v, dx, dy)
      rotates == v = "v2" \/ s.wasDragging \/ crossed
      mx == p[1] - s.lastPointer[1]
      my == p[2] - s.lastPointer[2]
  IN IF ~s.isDragging THEN w
     ELSE [w EXCEPT
             !.state.didMove = IF v = "v31" THEN TRUE ELSE @,
             !.state.wasDragging = IF v = "v2" THEN @ ELSE (@ \/ crossed),
             !.state.isAutoRotating = IF crossed THEN FALSE ELSE @,
             !.state.rotation =
                IF rotates
                THEN [@ EXCEPT !.y = @ + mx * DragSensitivity(v),
                               !.x = @ + my * DragSensitivity(v)]
                ELSE @,
             !.state.velocity =
                IF rotates
                THEN [x |-> my * DragSensitivity(v), y |-> mx * DragSensitivity(v)]
                ELSE @,
             !.state.lastPointer = p]

\* resumeTimer = setTimeout(() => { isAutoRotating = true }, idleResumeDelay)
ScheduleResume(w) ==
  [w EXCEPT !.state.resumeTimer = "live", !.sched.resume = @ + 1]

\* if (resumeTimer) clearTimeout(resumeTimer), the handle kept (3.1.0).
ClearResumeKeepHandle(w) ==
  IF w.state.resumeTimer = "null" THEN w
  ELSE [w EXCEPT !.sched.resume = ClearTimeout(w.state.resumeTimer, @),
                 !.state.resumeTimer = "stale"]

\* A plausible slip: the release of a drag resumes auto-rotation at once.
onPointerUpResumesAtOnce(v, w, isTouchEvent) ==
  IF ~w.state.isDragging THEN w
  ELSE [w EXCEPT !.state.isDragging = FALSE, !.state.isAutoRotating = TRUE]

\* onPointerUp (2.0.0, 3.0.0), onUp (3.1.0); isTouchEvent is
\* e.type === 'touchend', read by 3.1.0 only.
onPointerUp(v, w, isTouchEvent) ==
  LET s == w.state
      w1 == [w EXCEPT !.state.isDragging = FALSE]
      wasPureTap == ~s.didMove /\ ~s.wasDragging
  IN IF ~s.isDragging THEN w
     ELSE IF v = "v2" THEN ScheduleResume(w1)
     ELSE IF v \in {"v30js", "v30ts"}
          THEN (IF s.wasDragging THEN ScheduleResume(w1) ELSE w1)
     ELSE IF s.wasDragging THEN ScheduleResume(ClearResumeKeepHandle(w1))
     ELSE IF wasPureTap /\ isTouchEvent
          THEN [cycleDisplayMode(w1) EXCEPT !.state.isAutoRotating = TRUE]
     ELSE IF ~isTouchEvent THEN ScheduleResume(ClearResumeKeepHandle(w1))
     ELSE [w1 EXCEPT !.state.isAutoRotating = TRUE]

\* A plausible slip: the click handler ignores the was-dragging flag.
onClickAlwaysCycles(v, w) ==
  [cycleDisplayMode(w) EXCEPT !.state.wasDragging = FALSE, !.state.didMove = FALSE]

\* The click listener of bindEvents (3.0.0 JS), onClickOrTap (3.0.0 TS),
\* onClick (3.1.0).
onClick(v, w) ==
  IF v = "v31"
  THEN IF w.state.didMove \/ w.state.wasDragging
       THEN [w EXCEPT !.state.wasDragging = FALSE, !.state.didMove = FALSE]
       ELSE [ClearResumeKeepHandle(cycleDisplayMode(w)) EXCEPT
               !.state.isAutoRotating = TRUE,
               !.state.wasDragging = FALSE,
               !.state.didMove = FALSE]
  ELSE [(IF ~w.state.wasDragging THEN cycleDisplayMode(w) ELSE w) EXCEPT
          !.state.wasDragging = FALSE]

\* The listeners a touchend runs, in dispatch order: 3.0.0 (TS) binds
\* onClickOrTap on the svg (the target's ancestor, run first) and
\* onPointerUp on window (run last).
onTouchEnd(v, w) ==
  IF v = "v30ts" THEN onPointerUp(v, onClick(v, w), TRUE)
  ELSE onPointerUp(v, w, TRUE)

\* -------------------------------------------------------------- animation
\* velocity *= config.momentumDamping (0.95)
Damp(x) == (x * DampingNum) \div DampingDen

\* Whether the integer units hold Damp(x) exactly.
Exact(x) == (x * DampingNum) % DampingDen = 0

\* A plausible slip: momentum is applied while the pointer is down.
AdvanceWhileDown(v, s) ==
  IF s.isAutoRotating
  THEN [s EXCEPT !.rotation = [x |-> @.x + AutoRotation(v).x,
                               y |-> @.y + AutoRotation(v).y,
                               z |-> @.z + AutoRotation(v).z]]
  ELSE [s EXCEPT !.rotation = [@ EXCEPT !.x = @ + s.velocity.x,
                                        !.y = @ + s.velocity.y],
                 !.velocity = [x |-> Damp(@.x), y |-> Damp(@.y)]]

\* The orientation step of animate.
Advance(v, s) ==
  IF s.isAutoRotating
  THEN [s EXCEPT !.rotation = [x |-> @.x + AutoRotation(v).x,
                               y |-> @.y + AutoRotation(v).y,
                               z |-> @.z + AutoRotation(v).z]]
  ELSE IF ~s.isDragging
  THEN [s EXCEPT !.rotation = [@ EXCEPT !.x = @ + s.velocity.x,
                                        !.y = @ + s.velocity.y],
                 !.velocity = [x |-> Damp(@.x), y |-> Damp(@.y)]]
  ELSE s

\* animate: request the next frame, advance the orientation (render reads
\* it and changes none of it).
animate(v, w) ==
  [w EXCEPT !.comp.animationId = "live",
            !.sched.frames = @ + 1,
            !.state = Advance(v, @)]

\* Whether animate's step is exact in the integer units.
AnimateExact(w) ==
  \/ w.state.isAutoRotating
  \/ w.state.isDragging
  \/ Exact(w.state.velocity.x) /\ Exact(w.state.velocity.y)

\* ------------------------------------------------------------- public API
\* init with a container that resolves; displayMode is the userConfig's
\* ("absent": not given).  createSVG leaves an earlier svg in the page.
init(v, w, displayMode) ==
  animate(v,
    [w EXCEPT !.comp.containerEl = TRUE,
              !.config.displayMode = IF displayMode = "absent" THEN "inner" ELSE displayMode,
              !.page.orphans = IF w.comp.svg THEN @ + 1 ELSE @,
              !.comp.svg = TRUE])

\* A failed init that had merged the configuration before resolving the
\* container.
initFailsAfterMerge(w) ==
  [w EXCEPT !.comp.containerEl = FALSE, !.config.displayMode = "inner"]

\* init with a container that does not resolve: returns false.
initFails(w) == [w EXCEPT !.comp.containerEl = FALSE]

\* What destroy leaves of state.wasDragging / didMove.
DestroyResetsFlags(v) == v \in {"v30ts", "v31"}

\* destroy.  3.1.0 cancels the frame and the timer and keeps both handles;
\* 3.0.0 (JS) cannot remove its anonymous click listener.
destroy(v, w) ==
  LET s == w.state
      keep == v = "v31"
  IN [w EXCEPT
        !.sched.frames = IF w.comp.animationId = "null" THEN @
                         ELSE ClearTimeout(w.comp.animationId, @),
        !.comp.animationId = IF @ = "null" THEN @ ELSE IF keep THEN "stale" ELSE "null",
        !.sched.resume = IF s.resumeTimer = "null" THEN @
                         ELSE ClearTimeout(s.resumeTimer, @),
        !.state.resumeTimer = IF @ = "null" THEN @ ELSE IF keep THEN "stale" ELSE "null",
        !.page.clickLeak = @ \/ (v = "v30js" /\ w.comp.svg),
        !.comp.svg = FALSE,
        !.comp.containerEl = FALSE,
        !.state.isDragging = FALSE,
        !.state.wasDragging = IF DestroyResetsFlags(v) THEN FALSE ELSE @,
        !.state.didMove = IF DestroyResetsFlags(v) THEN FALSE ELSE @,
        !.state.isAutoRotating = TRUE,
        !.state.rotation = InitialRotation(v),
        !.state.velocity = [x |-> 0, y |-> 0]]

\* ------------------------------------------------------------------ state
VARIABLES
  ver,      \* the revision that runs
  state,    \* the `state` object (3.1.0: isDragging ... resumeTimer)
  config,   \* the effective configuration
  comp,     \* svg, containerEl, animationId
  page,     \* the hosting page: the hint element, svgs left behind
  sched,    \* callbacks the host holds: frames, resume / fade / hide timers
  pointer,  \* the host's pointer: gesture in progress, click to deliver
  hist,     \* history of the run, read by the properties only
  gen,      \* a geometry generator at work: its loop index and collections
  proj,     \* a call of project: its argument, the config it reads, its result
  scene,    \* the drawn primitives, the configuration and rotation they show
  store,    \* the configuration objects: config, DEFAULT_CONFIG, a copy handed out
  rot       \* a call of rotatePoint: its arguments and what it returned

vars == <<ver, state, config, comp, page, sched, pointer, hist, gen, proj, scene, store,
          rot>>

\* The variables of the interaction run, and those of the other runs.
interaction == <<ver, state, config, comp, page, sched, pointer, hist>>
Idle == [pc |-> "idle"]

\* The program's side of the state, as the handlers take and return it.
World == [state |-> state, config |-> config, comp |-> comp, page |-> page,
          sched |-> sched]

Becomes(w) ==
  /\ state' = w.state
  /\ config' = w.config
  /\ comp' = w.comp
  /\ page' = w.page
  /\ sched' = w.sched
  /\ UNCHANGED <<gen, proj, scene, store, rot>>

NoGesture ==
  [phase |-> "none", kind |-> "none", rot0 |-> [x |-> 0, y |-> 0, z |-> 0],
   p0 |-> <<0, 0>>, p1 |-> <<0, 0>>, moves |-> 0, drag |-> FALSE,
   coasting0 |-> FALSE, ticked |-> FALSE,
   rotTouched |-> FALSE, steps |-> 0, inOrder |-> TRUE]

Init ==
  /\ ver \in Versions
  /\ state = InitialState(ver)
  /\ config = [displayMode |-> "inner"]
  /\ comp = [svg |-> FALSE, containerEl |-> FALSE, animationId |-> "null"]
  /\ page \in {[hintPresent |-> h, hint |-> "initial",
                hintTimerId |-> "null", orphans |-> 0, clickLeak |-> FALSE]
               : h \in BOOLEAN}
  /\ sched = [frames |-> 0, resume |-> 0, fade |-> 0, hide |-> 0]
  /\ pointer = [phase |-> "none", click |-> FALSE]
  /\ hist = [ev |-> "start", ret |-> "none", g |-> NoGesture,
             dragActive |-> FALSE, prevMode |-> "inner",
             n |-> 0]
  /\ gen = Idle
  /\ proj = Idle
  /\ scene = Idle
  /\ store = Idle
  /\ rot = Idle

\* ---------------------------------------------------------------- history
\* The events a run is bounded in: API calls, gestures begun, frames.
Counted(e) == e \in {"init", "initFail", "destroy", "cycle", "setMode", "down", "tick"}

\* The events the history tells apart.
Named == {"init", "initFail", "destroy", "cycle", "down", "move", "up", "click",
          "resume"}

\* Whether the run may take one more of the counted events.
Budget == hist.n < MaxEvents

\* The record of an event `e` that took the program from World to w.  The
\* record of a gesture is dropped at the first event after its completion.
Seen(e, w) ==
  [hist EXCEPT
     !.ev = IF e \in Named THEN e ELSE "other",
     !.n = IF Counted(e) THEN @ + 1 ELSE @,
     !.ret = "none",
     !.prevMode = IF e = "cycle" THEN config.displayMode ELSE "inner",
     !.g = IF @.phase = "done" THEN NoGesture ELSE @]

\* The order of the display modes as documented: inner, outer, both, inner.
Successor(m) ==
  CASE m = "inner" -> "outer"
    [] m = "outer" -> "both"
    [] m = "both" -> "inner"

\* The same for a pointer or click handler, which adds to the record of the
\* gesture: whether the handler changed state.rotation, how many times the
\* gesture's handlers changed the display mode, each time to the next mode.
Handled(e, w) ==
  LET live == hist.g.phase # "done"
      stepped == w.config.displayMode # config.displayMode
  IN [Seen(e, w) EXCEPT
        !.g.rotTouched = @ \/ (live /\ w.state.rotation # state.rotation),
        !.g.steps = IF live /\ stepped /\ @ < 2 THEN @ + 1 ELSE @,
        !.g.inOrder = @ /\ (live /\ stepped
                              => w.config.displayMode = Successor(config.displayMode))]

\* ------------------------------------------------------------- API calls
InitOk(dm) ==
  /\ Budget
  /\ ~pointer.click
  /\ sched.frames < MaxFrames
  /\ AnimateExact(World)
  /\ Becomes(init(ver, World, dm))
  /\ hist' = [Seen("init", init(ver, World, dm)) EXCEPT
                !.ret = "true"]
  /\ UNCHANGED <<ver, pointer>>

InitFail ==
  /\ Budget
  /\ ~pointer.click
  /\ Becomes(initFails(World))
  /\ hist' = [Seen("initFail", initFails(World)) EXCEPT !.ret = "false"]
  /\ UNCHANGED <<ver, pointer>>

Destroy ==
  /\ Budget
  /\ ~pointer.click
  /\ Becomes(destroy(ver, World))
  /\ pointer' = [phase |-> "none", click |-> FALSE]
  /\ hist' = [Seen("destroy", destroy(ver, World)) EXCEPT
                !.g = NoGesture, !.dragActive = FALSE]
  /\ UNCHANGED ver

CycleDisplayMode ==
  /\ Budget
  /\ ver # "v2"
  /\ ~pointer.click
  /\ Becomes(cycleDisplayMode(World))
  /\ hist' = [Seen("cycle", cycleDisplayMode(World)) EXCEPT
                !.ret = cycleDisplayMode(World).config.displayMode]
  /\ UNCHANGED <<ver, pointer>>

SetDisplayMode(m, showLabel) ==
  /\ Budget
  /\ ver # "v2"
  /\ ~pointer.click
  /\ Becomes(setDisplayMode(World, m, showLabel))
  /\ hist' = Seen("setMode", setDisplayMode(World, m, showLabel))
  /\ UNCHANGED <<ver, pointer>>

\* ---------------------------------------------------------- pointer input
\* mousedown / touchstart on the svg; both handlers call preventDefault, so
\* a touch gesture is followed by no click.
PointerDown(kind, p) ==
  /\ comp.svg
  /\ pointer.phase = "none"
  /\ ~pointer.click
  /\ Budget
  /\ Becomes(onPointerDown(ver, World, p))
  /\ pointer' = [phase |-> kind, click |-> FALSE]
  /\ hist' = [Handled("down", onPointerDown(ver, World, p)) EXCEPT
                !.g = [phase |-> "down", kind |-> kind, rot0 |-> state.rotation,
                       p0 |-> p, p1 |-> p, moves |-> 0, drag |-> (ver = "v2"),
                       coasting0 |-> (~state.isAutoRotating /\ sched.resume > 0),
                       ticked |-> FALSE,
                       rotTouched |-> (onPointerDown(ver, World, p).state.rotation
                                        # state.rotation),
                       steps |-> 0, inOrder |-> TRUE],
                !.dragActive = (ver = "v2")]
  /\ UNCHANGED ver

MouseDown(p) == PointerDown("mouse", p)

TouchStart(p) == PointerDown("touch", p)

\* mousemove / touchmove.  The handler returns at once unless isDragging.
PointerMove(p) ==
  /\ comp.svg
  /\ ~pointer.click
  /\ Becomes(onPointerMove(ver, World, p))
  /\ hist' =
       IF ~state.isDragging THEN hist
       ELSE LET w == onPointerMove(ver, World, p)
                crossed == ver # "v2" /\ ~state.wasDragging /\ w.state.wasDragging
            IN [Handled("move", w) EXCEPT
                  !.g.moves = IF @ < 2 THEN @ + 1 ELSE @,
                  !.g.p1 = IF hist.g.moves = 0 THEN p ELSE @,
                  !.g.drag = @ \/ crossed,
                  !.dragActive = @ \/ crossed]
  /\ UNCHANGED <<ver, pointer>>

\* The history after the handler of a release has run.
Released(e, w, clickFollows) ==
  IF ~state.isDragging THEN hist
  ELSE [Handled(e, w) EXCEPT !.g.phase = IF clickFollows THEN "released" ELSE "done"]

\* mouseup on window; a click on the svg follows when the button is released
\* over it (2.0.0 binds no click listener).
MouseUp(over) ==
  /\ comp.svg
  /\ pointer.phase = "mouse"
  /\ ~pointer.click
  /\ Becomes(onPointerUp(ver, World, FALSE))
  /\ pointer' = [phase |-> "none", click |-> (over /\ ver # "v2")]
  /\ hist' = IF hist.g.phase = "down" /\ ~state.isDragging
             THEN [hist EXCEPT
                     !.g.phase = IF over /\ ver # "v2" THEN "released" ELSE "done"]
             ELSE Released("up", onPointerUp(ver, World, FALSE), over /\ ver # "v2")
  /\ UNCHANGED ver

\* mouseleave on the svg runs onPointerUp (2.0.0, 3.0.0).
MouseLeave ==
  /\ ver # "v31"
  /\ comp.svg
  /\ pointer.phase \in {"none", "mouse"}
  /\ ~pointer.click
  /\ Becomes(onPointerUp(ver, World, FALSE))
  /\ hist' = IF ~state.isDragging THEN hist
             ELSE Handled("up", onPointerUp(ver, World, FALSE))
  /\ UNCHANGED <<ver, pointer>>

\* touchend.
TouchEnd ==
  /\ comp.svg
  /\ pointer.phase = "touch"
  /\ Becomes(onTouchEnd(ver, World))
  /\ pointer' = [phase |-> "none", click |-> FALSE]
  /\ hist' = Released("up", onTouchEnd(ver, World), FALSE)
  /\ UNCHANGED ver

\* The click the host delivers right after the mouseup.
Click ==
  /\ pointer.click
  /\ Becomes(onClick(ver, World))
  /\ pointer' = [pointer EXCEPT !.click = FALSE]
  /\ hist' = [Handled("click", onClick(ver, World)) EXCEPT
                !.g.phase = "done",
                !.g.rot0 = NoGesture.rot0, !.g.p0 = NoGesture.p0,
                !.g.p1 = NoGesture.p1, !.g.ticked = FALSE]
  /\ UNCHANGED ver

\* ------------------------------------------------------- host callbacks
\* A pending frame callback runs animate.
Tick ==
  /\ sched.frames > 0
  /\ ~pointer.click
  /\ Budget
  /\ AnimateExact(World)
  /\ Becomes(animate(ver, [World EXCEPT !.sched.frames = @ - 1]))
  /\ hist' = [Seen("tick", World) EXCEPT
                !.g.ticked = @ \/ (hist.g.phase = "down")]
  /\ UNCHANGED <<ver, pointer>>

\* The auto-resume timer fires.
ResumeTimerFires ==
  /\ sched.resume > 0
  /\ ~pointer.click
  /\ Becomes([World EXCEPT
                !.state.isAutoRotating = TRUE,
                !.state.resumeTimer = AfterFire(@, sched.resume),
                !.sched.resume = @ - 1])
  /\ hist' = [Seen("resume", World) EXCEPT !.dragActive = FALSE]
  /\ UNCHANGED <<ver, pointer>>

\* The label's fade timer fires: the label fades and a timer to hide it starts.
LabelFadeFires ==
  /\ sched.fade > 0
  /\ ~pointer.click
  /\ sched.hide < MaxHide
  /\ Becomes([World EXCEPT
                !.page.hint = "faded",
                !.page.hintTimerId = AfterFire(@, sched.fade),
                !.sched.fade = @ - 1,
                !.sched.hide = @ + 1])
  /\ hist' = Seen("fade", World)
  /\ UNCHANGED <<ver, pointer>>

\* The timer that hides the faded label fires; nothing ever cancels it.
LabelHideFires ==
  /\ sched.hide > 0
  /\ ~pointer.click
  /\ Becomes([World EXCEPT !.page.hint = "hidden", !.sched.hide = @ - 1])
  /\ hist' = Seen("hide", World)
  /\ UNCHANGED <<ver, pointer>>

Next ==
  \/ \E dm \in ModeSet \cup {"absent"} : (ver = "v2" => dm = "absent") /\ InitOk(dm)
  \/ InitFail
  \/ Destroy
  \/ CycleDisplayMode
  \/ \E m \in ModeSet, showLabel \in BOOLEAN : SetDisplayMode(m, showLabel)
  \/ \E p \in DownPositions : MouseDown(p)
  \/ \E p \in DownPositions : TouchStart(p)
  \/ \E p \in Positions : PointerMove(p)
  \/ \E over \in BOOLEAN : MouseUp(over)
  \/ MouseLeave
  \/ TouchEnd
  \/ Click
  \/ Tick
  \/ ResumeTimerFires
  \/ LabelFadeFires
  \/ LabelHideFires

Spec == Init /\ [][Next]_vars

\* =================================================================
\* Geometry.  Coordinates are integers: one unit is 1/1000 of the
\* source's length unit; a division or a square root rounds to the nearest
\* unit where the source computes in double precision.
\* =================================================================
Milli == 1000

\* PHI = (1 + sqrt 5) / 2 and INV_PHI = 1 / PHI, in units.
PHI == 1618

INV_PHI == 618

PYRAMID_HEIGHT == 320

DUAL_SCALE == 1350

\* The 1.1 by which the dual's edge length is inflated, as 11 / 10.
InflateNum == 11

InflateDen == 10

\* a / b rounded to the nearest integer, symmetric about zero (b > 0).
Round(a, b) ==
  IF a >= 0 THEN (2 * a + b) \div (2 * b) ELSE 0 - ((2 * (0 - a) + b) \div (2 * b))

RECURSIVE SqrtBetween(_, _, _)
\* The largest r in lo..hi with r * r <= n.
SqrtBetween(n, lo, hi) ==
  IF lo >= hi THEN lo
  ELSE LET mid == (lo + hi + 1) \div 2
       IN IF mid * mid <= n THEN SqrtBetween(n, mid, hi)
          ELSE SqrtBetween(n, lo, mid - 1)

\* Math.sqrt of n square units, in units, rounded to the nearest.
Sqrt(n) ==
  LET r == SqrtBetween(n, 0, 46340)
  IN IF n - r * r > r THEN r + 1 ELSE r

\* x * x + y * y + z * z
NormSq(v) == v[1] * v[1] + v[2] * v[2] + v[3] * v[3]

normalize(v) ==
  LET len == Sqrt(NormSq(v))
  IN <<Round(v[1] * Milli, len), Round(v[2] * Milli, len), Round(v[3] * Milli, len)>>

centroid(v0, v1, v2) ==
  <<Round(v0[1] + v1[1] + v2[1], 3), Round(v0[2] + v1[2] + v2[2], 3),
    Round(v0[3] + v1[3] + v2[3], 3)>>

\* The twelve vertices of the icosahedron as the 2.0.0 and 3.0.0 tables give
\* them: (+-1, +-PHI, 0) and its cyclic permutations.
ICO_VERTICES_RAW ==
  <<<<0 - Milli, PHI, 0>>, <<Milli, PHI, 0>>, <<0 - Milli, 0 - PHI, 0>>, <<Milli, 0 - PHI, 0>>,
    <<0, 0 - Milli, PHI>>, <<0, Milli, PHI>>, <<0, 0 - Milli, 0 - PHI>>, <<0, Milli, 0 - PHI>>,
    <<PHI, 0, 0 - Milli>>, <<PHI, 0, Milli>>, <<0 - PHI, 0, 0 - Milli>>, <<0 - PHI, 0, Milli>>>>

\* 3.1.0 tabulates them normalized: 0.5257311121 and 0.8506508084.
IcoShort == 526

IcoLong == 851

ICO_VERTICES_NORMALIZED ==
  <<<<0 - IcoShort, IcoLong, 0>>, <<IcoShort, IcoLong, 0>>,
    <<0 - IcoShort, 0 - IcoLong, 0>>, <<IcoShort, 0 - IcoLong, 0>>,
    <<0, 0 - IcoShort, IcoLong>>, <<0, IcoShort, IcoLong>>,
    <<0, 0 - IcoShort, 0 - IcoLong>>, <<0, IcoShort, 0 - IcoLong>>,
    <<IcoLong, 0, 0 - IcoShort>>, <<IcoLong, 0, IcoShort>>,
    <<0 - IcoLong, 0, 0 - IcoShort>>, <<0 - IcoLong, 0, IcoShort>>>>

\* The twenty faces, as triples of vertex indices counted from 0.
ICO_FACES ==
  <<<<0, 11, 5>>, <<0, 5, 1>>, <<0, 1, 7>>, <<0, 7, 10>>, <<0, 10, 11>>,
    <<1, 5, 9>>, <<5, 11, 4>>, <<11, 10, 2>>, <<10, 7, 6>>, <<7, 1, 8>>,
    <<3, 9, 4>>, <<3, 4, 2>>, <<3, 2, 6>>, <<3, 6, 8>>, <<3, 8, 9>>,
    <<4, 9, 5>>, <<2, 4, 11>>, <<6, 2, 10>>, <<8, 6, 7>>, <<9, 8, 1>>>>

\* The revisions of the generators: 3.0.0 (JS and TS alike) and 3.1.0.
GenRevisions == {"v30", "v31"}

\* ---- edge keys
\* 3.0.0 keeps the edges in a Set of strings `${lo}-${hi}` and parses them
\* back; a string is a sequence of characters here.
DigitChars == <<"0", "1", "2", "3", "4", "5", "6", "7", "8", "9">>

RECURSIVE ToDigits(_)
\* String(n) for n >= 0
ToDigits(n) ==
  IF n < 10 THEN <<DigitChars[n + 1]>>
  ELSE ToDigits(n \div 10) \o <<DigitChars[(n % 10) + 1]>>

DigitValue(c) == (CHOOSE d \in 1..10 : DigitChars[d] = c) - 1

RECURSIVE FromDigits(_)
\* Number(s) for a string of digits; Number("") is 0.
FromDigits(s) ==
  IF s = <<>> THEN 0
  ELSE 10 * FromDigits(SubSeq(s, 1, Len(s) - 1)) + DigitValue(s[Len(s)])

\* A key that keeps the order of its two indices.
OrderedKey(rev, i1, i2) ==
  IF rev = "v30" THEN ToDigits(i1) \o <<"-">> \o ToDigits(i2) ELSE i1 * 65536 + i2

\* addEdge's key: the smaller index first.  3.1.0: (lo << 16) | hi, which is
\* lo * 65536 + hi for indices below 65536.
EdgeKey(rev, i1, i2) ==
  LET lo == IF i1 < i2 THEN i1 ELSE i2
      hi == IF i1 < i2 THEN i2 ELSE i1
  IN IF rev = "v30" THEN ToDigits(lo) \o <<"-">> \o ToDigits(hi)
     ELSE lo * 65536 + hi

\* key.split('-').map(Number) for a key with one '-'.
ParseKey(key) ==
  LET dash == CHOOSE k \in 1..Len(key) : key[k] = "-"
  IN <<FromDigits(SubSeq(key, 1, dash - 1)), FromDigits(SubSeq(key, dash + 1, Len(key)))>>

\* f of the value of e.  TLC evaluates a definition wherever its name is
\* used; a bound variable holds a value, evaluated once.
With(e, f(_)) == CHOOSE r \in {f(x) : x \in {e}} : TRUE

\* An edge collection: the keys in the set in insertion order, and the
\* pairs 3.1.0 pushes beside it.
NoEdges == [keys |-> <<>>, edges |-> <<>>]

\* addEdge called for each pair of calls in turn, starting from e.  A key
\* already in the set is not added again (3.0.0: Set.add; 3.1.0: has, then
\* add and push [min, max]).
InsertAll(rev, e, calls) ==
  LET old == Len(e.keys)
      lo(p) == IF p[1] < p[2] THEN p[1] ELSE p[2]
      hi(p) == IF p[1] < p[2] THEN p[2] ELSE p[1]
      Keep(all) ==
        LET First(c) == \A d \in 1..(c - 1) : all[d] # all[c]
        IN SelectSeq([c \in 1..Len(all) |-> c], First)
      Result(all, kept) ==
        [keys |-> [k \in 1..Len(kept) |-> all[kept[k]]] \o <<>>,
         edges |-> IF rev = "v30" THEN <<>>
                   ELSE e.edges \o [k \in 1..(Len(kept) - old) |->
                                      <<lo(calls[kept[old + k] - old]),
                                        hi(calls[kept[old + k] - old])>>]]
  IN With(e.keys \o [c \in 1..Len(calls) |-> EdgeKey(rev, calls[c][1], calls[c][2])],
          LAMBDA all : With(Keep(all), LAMBDA kept : Result(all, kept)))

\* The edge list a generator returns: 3.0.0 parses its keys, 3.1.0 has
\* pushed the pairs.
EdgeArray(rev, e) ==
  IF rev = "v30" THEN [k \in 1..Len(e.keys) |-> ParseKey(e.keys[k])] ELSE e.edges

\* ---- generateTriakisIcosahedron
\* The base vertices: 3.0.0 normalizes its table, 3.1.0 tabulates them.
BaseVertices(rev) ==
  IF rev = "v30"
  THEN [k \in 1..Len(ICO_VERTICES_RAW) |-> normalize(ICO_VERTICES_RAW[k])]
  ELSE ICO_VERTICES_NORMALIZED

\* The apex over the face with corners v0, v1, v2.
PyramidVertex(rev, v0, v1, v2) ==
  IF rev = "v30"
  THEN LET normal == normalize(centroid(v0, v1, v2))
       IN <<Round(normal[1] * (Milli + PYRAMID_HEIGHT), Milli),
            Round(normal[2] * (Milli + PYRAMID_HEIGHT), Milli),
            Round(normal[3] * (Milli + PYRAMID_HEIGHT), Milli)>>
  ELSE LET c == centroid(v0, v1, v2)
           len == Sqrt(NormSq(c))
       IN <<Round(c[1] * (Milli + PYRAMID_HEIGHT), len),
            Round(c[2] * (Milli + PYRAMID_HEIGHT), len),
            Round(c[3] * (Milli + PYRAMID_HEIGHT), len)>>

\* The same loop body without the boundary edges of the face.
FaceCallsApexOnly(f) ==
  LET newIndex == Len(ICO_VERTICES_RAW) + f - 1
  IN <<<<newIndex, ICO_FACES[f][1]>>, <<newIndex, ICO_FACES[f][2]>>,
       <<newIndex, ICO_FACES[f][3]>>>>

\* The six addEdge calls of the iteration for face f (from 1), whose apex
\* has index 11 + f: apex to each corner, then the face's boundary.
\* Indices count from 0 as in the source.
FaceCalls(f) ==
  LET i0 == ICO_FACES[f][1]
      i1 == ICO_FACES[f][2]
      i2 == ICO_FACES[f][3]
      newIndex == Len(ICO_VERTICES_RAW) + f - 1
  IN <<<<newIndex, i0>>, <<newIndex, i1>>, <<newIndex, i2>>,
       <<i0, i1>>, <<i1, i2>>, <<i2, i0>>>>

\* The generator before its loop.
TriakisStart(rev) ==
  [n |-> 0, vertices |-> BaseVertices(rev), keys |-> <<>>, edges |-> <<>>]

\* One iteration of the loop over ICO_FACES, for face f = g.n + 1.
TriakisFace(rev, g) ==
  LET f == g.n + 1
      Pushed(e) ==
        [n |-> f,
         vertices |-> Append(g.vertices,
                             PyramidVertex(rev, g.vertices[ICO_FACES[f][1] + 1],
                                           g.vertices[ICO_FACES[f][2] + 1],
                                           g.vertices[ICO_FACES[f][3] + 1])),
         keys |-> e.keys, edges |-> e.edges]
  IN With(InsertAll(rev, [keys |-> g.keys, edges |-> g.edges], FaceCalls(f)), Pushed)

\* The whole call: every face in order.  The apexes read base vertices
\* only and the set keeps first insertions, so the loop is written out
\* over all its calls at once.
generateTriakisIcosahedron(rev) ==
  LET base == BaseVertices(rev)
      calls == [c \in 1..(6 * Len(ICO_FACES)) |->
                  FaceCalls(((c - 1) \div 6) + 1)[((c - 1) % 6) + 1]]
  IN [vertices |-> base \o [f \in 1..Len(ICO_FACES) |->
                     PyramidVertex(rev, base[ICO_FACES[f][1] + 1],
                                   base[ICO_FACES[f][2] + 1], base[ICO_FACES[f][3] + 1])],
      edges |-> With(InsertAll(rev, NoEdges, calls \o <<>>),
                     LAMBDA e : EdgeArray(rev, e) \o <<>>)]

\* ---- generateTruncatedDodecahedron
\* The coordinate table, with 1/phi, phi, 2 phi, phi + 1 and 2 + phi.
DodecaCoords ==
  LET phi == PHI
      invPhi == INV_PHI
      two == 2 * Milli
      twoPhi == 2 * PHI
      phiPlusOne == PHI + Milli
      twoPhiPlusOne == 2 * Milli + PHI
  IN << <<0, invPhi, twoPhiPlusOne>>, <<0, invPhi, -twoPhiPlusOne>>,
        <<0, -invPhi, twoPhiPlusOne>>, <<0, -invPhi, -twoPhiPlusOne>>,
        <<twoPhiPlusOne, 0, invPhi>>, <<twoPhiPlusOne, 0, -invPhi>>,
        <<-twoPhiPlusOne, 0, invPhi>>, <<-twoPhiPlusOne, 0, -invPhi>>,
        <<invPhi, twoPhiPlusOne, 0>>, <<invPhi, -twoPhiPlusOne, 0>>,
        <<-invPhi, twoPhiPlusOne, 0>>, <<-invPhi, -twoPhiPlusOne, 0>>,
        <<invPhi, phi, twoPhi>>, <<invPhi, phi, -twoPhi>>,
        <<invPhi, -phi, twoPhi>>, <<invPhi, -phi, -twoPhi>>,
        <<-invPhi, phi, twoPhi>>, <<-invPhi, phi, -twoPhi>>,
        <<-invPhi, -phi, twoPhi>>, <<-invPhi, -phi, -twoPhi>>,
        <<twoPhi, invPhi, phi>>, <<twoPhi, invPhi, -phi>>,
        <<twoPhi, -invPhi, phi>>, <<twoPhi, -invPhi, -phi>>,
        <<-twoPhi, invPhi, phi>>, <<-twoPhi, invPhi, -phi>>,
        <<-twoPhi, -invPhi, phi>>, <<-twoPhi, -invPhi, -phi>>,
        <<phi, twoPhi, invPhi>>, <<phi, twoPhi, -invPhi>>,
        <<phi, -twoPhi, invPhi>>, <<phi, -twoPhi, -invPhi>>,
        <<-phi, twoPhi, invPhi>>, <<-phi, twoPhi, -invPhi>>,
        <<-phi, -twoPhi, invPhi>>, <<-phi, -twoPhi, -invPhi>>,
        <<phi, two, phiPlusOne>>, <<phi, two, -phiPlusOne>>,
        <<phi, -two, phiPlusOne>>, <<phi, -two, -phiPlusOne>>,
        <<-phi, two, phiPlusOne>>, <<-phi, two, -phiPlusOne>>,
        <<-phi, -two, phiPlusOne>>, <<-phi, -two, -phiPlusOne>>,
        <<phiPlusOne, phi, two>>, <<phiPlusOne, phi, -two>>,
        <<phiPlusOne, -phi, two>>, <<phiPlusOne, -phi, -two>>,
        <<-phiPlusOne, phi, two>>, <<-phiPlusOne, phi, -two>>,
        <<-phiPlusOne, -phi, two>>, <<-phiPlusOne, -phi, -two>>,
        <<two, phiPlusOne, phi>>, <<two, phiPlusOne, -phi>>,
        <<two, -phiPlusOne, phi>>, <<two, -phiPlusOne, -phi>>,
        <<-two, phiPlusOne, phi>>, <<-two, phiPlusOne, -phi>>,
        <<-two, -phiPlusOne, phi>>, <<-two, -phiPlusOne, -phi>> >>

\* The largest of the table's norms.
MaxDist ==
  LET norms == {Sqrt(NormSq(DodecaCoords[k])) : k \in 1..Len(DodecaCoords)}
  IN CHOOSE m \in norms : \A d \in norms : d <= m

\* The table scaled to radius DUAL_SCALE.
DodecaVertices ==
  LET Scaled(maxDist) ==
        [k \in 1..Len(DodecaCoords) |->
           <<Round(DodecaCoords[k][1] * DUAL_SCALE, maxDist),
             Round(DodecaCoords[k][2] * DUAL_SCALE, maxDist),
             Round(DodecaCoords[k][3] * DUAL_SCALE, maxDist)>>] \o <<>>
  IN With(MaxDist, Scaled)

\* The edge length of the scaled solid, without the margin.
edgeLengthExact == Round(2 * INV_PHI * DUAL_SCALE, MaxDist)

\* The proximity threshold: the edge length of the scaled solid, 2/phi
\* scaled, with a margin of a tenth.
edgeLength == Round(Round(2 * INV_PHI * DUAL_SCALE, MaxDist) * InflateNum, InflateDen)

\* The test of the inner loop on vertices i and j (from 0) of the scaled
\* table: 3.0.0 compares the distance with the threshold, 3.1.0 their
\* squares.
Near(rev, vertices, limit, i, j) ==
  LET d == <<vertices[i + 1][1] - vertices[j + 1][1],
             vertices[i + 1][2] - vertices[j + 1][2],
             vertices[i + 1][3] - vertices[j + 1][3]>>
  IN IF rev = "v30" THEN Sqrt(NormSq(d)) < limit
     ELSE NormSq(d) < limit * limit

\* The pairs the inner loop passes on for the outer index i, in order.
RowCalls(rev, vertices, limit, i) ==
  LET IsNear(p) == Near(rev, vertices, limit, p[1], p[2])
  IN SelectSeq([k \in 1..(Len(vertices) - 1 - i) |-> <<i, i + k>>], IsNear)

\* The generator before its loops.
DodecaStart ==
  [n |-> 0, vertices |-> DodecaVertices, keys |-> <<>>, edges |-> <<>>]

\* One pass of the outer loop, for i = g.n: 3.0.0 adds a key to its set,
\* 3.1.0 pushes the pair.
DodecaRow(rev, g) ==
  LET Pushed(e) ==
        [n |-> g.n + 1, vertices |-> g.vertices, keys |-> e.keys, edges |-> e.edges]
      Row(limit) ==
        With(RowCalls(rev, g.vertices, limit, g.n),
             LAMBDA calls :
               IF rev = "v30"
               THEN With(InsertAll(rev, [keys |-> g.keys, edges |-> g.edges], calls), Pushed)
               ELSE Pushed([keys |-> <<>>, edges |-> g.edges \o calls]))
  IN With(edgeLength, Row)

\* The whole call: the pairs i < j in the order of the loops, those the
\* test accepts.
generateTruncatedDodecahedron(rev) ==
  LET n == Len(DodecaCoords)
      Calls(vertices, limit) ==
        LET IsNear(p) == p[1] < p[2] /\ Near(rev, vertices, limit, p[1], p[2])
        IN SelectSeq([k \in 1..(n * n) |-> <<(k - 1) \div n, (k - 1) % n>>], IsNear)
      Returned(vertices, calls) ==
        [vertices |-> vertices,
         edges |-> IF rev = "v30"
                   THEN With(InsertAll(rev, NoEdges, calls),
                             LAMBDA e : EdgeArray(rev, e) \o <<>>)
                   ELSE calls]
  IN With(DodecaVertices,
          LAMBDA vertices :
            With(edgeLength,
                 LAMBDA limit :
                   With(Calls(vertices, limit),
                        LAMBDA calls : Returned(vertices, calls))))

\* ------------------------------------------------- the generators' runs
\* The interaction variables while another run is looked at: the module as
\* loaded, nothing initialised.
InteractionIdle ==
  /\ ver = "v31"
  /\ state = InitialState("v31")
  /\ config = [displayMode |-> "inner"]
  /\ comp = [svg |-> FALSE, containerEl |-> FALSE, animationId |-> "null"]
  /\ page = [hintPresent |-> FALSE, hint |-> "initial",
             hintTimerId |-> "null", orphans |-> 0, clickLeak |-> FALSE]
  /\ sched = [frames |-> 0, resume |-> 0, fade |-> 0, hide |-> 0]
  /\ pointer = [phase |-> "none", click |-> FALSE]
  /\ hist = [ev |-> "start", ret |-> "none", g |-> NoGesture,
             dragActive |-> FALSE, prevMode |-> "inner", n |-> 0]

Solids == {"triakis", "dual"}

NoGeometry == [vertices |-> <<>>, edges |-> <<>>]

\* A generator entered: its collections as they are before the loop.
GenInit ==
  /\ InteractionIdle
  /\ proj = Idle
  /\ scene = Idle
  /\ store = Idle
  /\ rot = Idle
  /\ gen \in {[pc |-> "loop", rev |-> rev, solid |-> s,
               g |-> IF s = "triakis" THEN TriakisStart(rev) ELSE DodecaStart,
               result |-> NoGeometry] : rev \in GenRevisions, s \in Solids}

\* ICO_FACES.forEach / for (f ...): one face.
TriakisLoop ==
  /\ gen.pc = "loop" /\ gen.solid = "triakis"
  /\ gen.g.n < Len(ICO_FACES)
  /\ gen' = [gen EXCEPT !.g = TriakisFace(gen.rev, gen.g)]
  /\ UNCHANGED <<interaction, proj, scene, store, rot>>

\* return { vertices, edges }
TriakisReturn ==
  /\ gen.pc = "loop" /\ gen.solid = "triakis"
  /\ gen.g.n = Len(ICO_FACES)
  /\ gen' = [gen EXCEPT !.pc = "done",
               !.result = [vertices |-> gen.g.vertices,
                           edges |-> EdgeArray(gen.rev, gen.g)]]
  /\ UNCHANGED <<interaction, proj, scene, store, rot>>

\* for (let i ...): one pass of the outer loop, its inner loop within.
DodecaLoop ==
  /\ gen.pc = "loop" /\ gen.solid = "dual"
  /\ gen.g.n < Len(gen.g.vertices)
  /\ gen' = [gen EXCEPT !.g = DodecaRow(gen.rev, gen.g)]
  /\ UNCHANGED <<interaction, proj, scene, store, rot>>

DodecaReturn ==
  /\ gen.pc = "loop" /\ gen.solid = "dual"
  /\ gen.g.n = Len(gen.g.vertices)
  /\ gen' = [gen EXCEPT !.pc = "done",
               !.result = [vertices |-> gen.g.vertices,
                           edges |-> EdgeArray(gen.rev, gen.g)]]
  /\ UNCHANGED <<interaction, proj, scene, store, rot>>

GenNext == TriakisLoop \/ TriakisReturn \/ DodecaLoop \/ DodecaReturn

GeomSpec == GenInit /\ [][GenNext]_vars

\* ---------------------------------------------------------- configuration
\* { ...config, ...newConfig, autoRotation: { ...config.autoRotation,
\*   ...(newConfig.autoRotation || {}) } }: the fields newConfig has replace
\* those of config, the auto-rotation triple field by field.  A partial
\* configuration is a record of the fields it has.
MergeConfig(cfg, nc) ==
  [f \in DOMAIN cfg \cup DOMAIN nc |->
     IF f = "autoRotation"
     THEN IF f \in DOMAIN nc /\ f \in DOMAIN cfg
          THEN [a \in DOMAIN cfg[f] \cup DOMAIN nc[f] |->
                  IF a \in DOMAIN nc[f] THEN nc[f][a] ELSE cfg[f][a]]
          ELSE IF f \in DOMAIN nc THEN nc[f] ELSE cfg[f]
     ELSE IF f \in DOMAIN nc THEN nc[f] ELSE cfg[f]]

\* ---------------------------------------------------------------- project
\* The same with y not inverted.
projectUnflipped(cfg, point) ==
  [x |-> (cfg.size * Milli) \div 2 + point[1] * cfg.scale,
   y |-> (cfg.size * Milli) \div 2 + point[2] * cfg.scale,
   z |-> point[3]]

\* project: orthographic, y inverted for the screen, z kept.  Coordinates
\* are in thousandths, so half of size pixels is size * 500.
project(cfg, point) ==
  LET halfSize == (cfg.size * Milli) \div 2
  IN [x |-> halfSize + point[1] * cfg.scale,
      y |-> halfSize - point[2] * cfg.scale,
      z |-> point[3]]

\* The sizes, scales and coordinates (thousandths) project is called with.
ProjSizes == {0, 1, 280}
ProjScales == {0, 1, 85}
ProjCoords == {-1000, 0, 500}

ProjPatches ==
  {[size |-> s] : s \in ProjSizes} \cup {[scale |-> k] : k \in ProjScales}
    \cup {[size |-> s, scale |-> k] : s \in ProjSizes, k \in ProjScales}

\* The module loaded: config is DEFAULT_CONFIG, of which project reads size
\* and scale.
ProjInit ==
  /\ InteractionIdle
  /\ gen = Idle
  /\ scene = Idle
  /\ store = Idle
  /\ rot = Idle
  /\ proj = [pc |-> "ready", config |-> [size |-> 280, scale |-> 85],
             point |-> <<0, 0, 0>>, result |-> [x |-> 0, y |-> 0, z |-> 0]]

\* setConfig(nc), as far as project is concerned.
ProjSetConfig(nc) ==
  /\ proj' = [proj EXCEPT !.pc = "ready", !.config = MergeConfig(@, nc)]
  /\ UNCHANGED <<interaction, gen, scene, store, rot>>

\* project(point)
ProjCall(point) ==
  /\ proj' = [proj EXCEPT !.pc = "returned", !.point = point,
                !.result = project(proj.config, point)]
  /\ UNCHANGED <<interaction, gen, scene, store, rot>>

ProjNext ==
  \/ \E nc \in ProjPatches : ProjSetConfig(nc)
  \/ \E point \in ProjCoords \X ProjCoords \X ProjCoords : ProjCall(point)

ProjSpec == ProjInit /\ [][ProjNext]_vars

\* -------------------------------------------------------------- rendering
\* Math.cos and Math.sin of an angle in thousandths of a radian, by their
\* series; good to a thousandth for angles within a radian of 0.
Cos(a) ==
  LET x2 == Round(a * a, Milli)
  IN Milli - Round(x2, 2) + Round(x2 * x2, 24 * Milli)
       - Round(x2 * x2 * x2, 720 * Milli * Milli)

Sin(a) ==
  LET x2 == Round(a * a, Milli)
  IN a - Round(a * x2, 6 * Milli) + Round(a * x2 * x2, 120 * Milli * Milli)

rotateX(point, angle) ==
  <<point[1],
    Round(point[2] * Cos(angle) - point[3] * Sin(angle), Milli),
    Round(point[2] * Sin(angle) + point[3] * Cos(angle), Milli)>>

rotateY(point, angle) ==
  <<Round(point[1] * Cos(angle) + point[3] * Sin(angle), Milli),
    point[2],
    Round(point[3] * Cos(angle) - point[1] * Sin(angle), Milli)>>

rotateZ(point, angle) ==
  <<Round(point[1] * Cos(angle) - point[2] * Sin(angle), Milli),
    Round(point[1] * Sin(angle) + point[2] * Cos(angle), Milli),
    point[3]>>

\* About x, then y, then z; 3.1.0 computes the same in one function.
rotatePoint(point, rotation) ==
  With(rotateX(point, rotation.x),
       LAMBDA p : With(rotateY(p, rotation.y), LAMBDA q : rotateZ(q, rotation.z)))

\* EDGES of 2.0.0.
EDGES_V2 ==
  << <<0, 1>>, <<0, 5>>, <<0, 7>>, <<0, 10>>, <<0, 11>>,
     <<1, 5>>, <<1, 7>>, <<1, 8>>, <<1, 9>>,
     <<2, 3>>, <<2, 4>>, <<2, 6>>, <<2, 10>>, <<2, 11>>,
     <<3, 4>>, <<3, 6>>, <<3, 8>>, <<3, 9>>,
     <<4, 5>>, <<4, 9>>, <<4, 11>>,
     <<5, 9>>, <<5, 11>>,
     <<6, 7>>, <<6, 8>>, <<6, 10>>,
     <<7, 8>>, <<7, 10>>,
     <<8, 9>>,
     <<10, 11>> >>

\* The geometries made when the module is loaded.
TriakisV30 == generateTriakisIcosahedron("v30")
TriakisV31 == generateTriakisIcosahedron("v31")
DualV30 == generateTruncatedDodecahedron("v30")
DualV31 == generateTruncatedDodecahedron("v31")

\* VERTICES and EDGES (2.0.0, 3.0.0), triakis (3.1.0).
InnerGeometry(v) ==
  IF v = "v2" THEN [vertices |-> ICO_VERTICES_RAW, edges |-> EDGES_V2]
  ELSE IF v = "v31" THEN TriakisV31 ELSE TriakisV30

\* DUAL_VERTICES and DUAL_EDGES (3.0.0), dual (3.1.0); 2.0.0 has none.
DualGeometry(v) ==
  IF v = "v2" THEN NoGeometry
  ELSE IF v = "v31" THEN DualV31 ELSE DualV30

\* The color of DEFAULT_CONFIG.
DefaultColor(v) == IF v \in {"v2", "v30js"} THEN "#57068c" ELSE "#0e0e7b"

\* DEFAULT_CONFIG, the fields that reach the primitives.  Widths, radii
\* and opacities in thousandths, angles in thousandths of a radian.
DEFAULT_CONFIG(v) ==
  LET auto == [x |-> AutoRotation(v).x \div Unit, y |-> AutoRotation(v).y \div Unit,
               z |-> AutoRotation(v).z \div Unit]
  IN IF v = "v2"
     THEN [size |-> 200, scale |-> 70,
           strokeColor |-> DefaultColor(v), strokeWidth |-> 1500, strokeOpacity |-> 900,
           vertexColor |-> DefaultColor(v), vertexRadius |-> 2000,
           depthFading |-> TRUE, autoRotation |-> auto]
     ELSE [size |-> 280, scale |-> 85, displayMode |-> "inner",
           strokeColor |-> DefaultColor(v), strokeWidth |-> 1000, strokeOpacity |-> 900,
           dualStrokeColor |-> DefaultColor(v), dualStrokeWidth |-> 500,
           dualStrokeOpacity |-> 400,
           vertexColor |-> DefaultColor(v), vertexRadius |-> 0,
           depthFading |-> TRUE, autoRotation |-> auto]

\* state.rotation as the module sets it, in thousandths of a radian.
SceneRotation(v) ==
  [x |-> InitialRotation(v).x \div Unit, y |-> InitialRotation(v).y \div Unit,
   z |-> InitialRotation(v).z \div Unit]

\* What a <line> shows when an attribute was never set: coordinates 0,
\* stroke-opacity 1.  depth is the avgZ of the segment its coordinates were
\* last taken from.
BlankLine ==
  [x1 |-> 0, y1 |-> 0, x2 |-> 0, y2 |-> 0, stroke |-> "", width |-> Milli,
   opacity |-> Milli, display |-> "", depth |-> 0]

BlankCircle ==
  [cx |-> 0, cy |-> 0, r |-> 0, fill |-> "", fillOpacity |-> Milli, display |-> ""]

\* vertices.map(v => project(rotatePoint(v, rotation)))
Projected(cfg, vertices, rotation) ==
  [k \in 1..Len(vertices) |->
     With(rotatePoint(vertices[k], rotation), LAMBDA rotated : project(cfg, rotated))] \o <<>>

\* avgZ of an edge between projected points.
AvgZ(projected, edge) == Round(projected[edge[1] + 1].z + projected[edge[2] + 1].z, 2)

\* x1, y1, x2, y2 of a line set from an edge's projected ends.
Placed(line, projected, edge) ==
  [line EXCEPT !.x1 = projected[edge[1] + 1].x, !.y1 = projected[edge[1] + 1].y,
               !.x2 = projected[edge[2] + 1].x, !.y2 = projected[edge[2] + 1].y,
               !.depth = AvgZ(projected, edge)]

\* (floor + depthFactor * (1 - floor)) * base with depthFactor = (z + 2) / 4.
Faded(floor, z, base) ==
  Round((floor + Round(Round(z + 2 * Milli, 4) * (Milli - floor), Milli)) * base, Milli)

\* The floor of the fade: 0.3 in 2.0.0; since 3.0.0 0.25 for the inner
\* edges and the vertices, 0.15 for the dual edges.
FadeFloor(v, dual) == IF v = "v2" THEN 300 ELSE IF dual THEN 150 ELSE 250

ShowInner(cfg) == "displayMode" \notin DOMAIN cfg \/ cfg.displayMode # "outer"
ShowOuter(cfg) == "displayMode" \in DOMAIN cfg /\ cfg.displayMode # "inner"

\* A plausible slip: the vertex circles are left as they are.
updateDisplayModeLinesOnly(v, sc) ==
  IF v = "v2" THEN sc
  ELSE LET inner == IF ShowInner(sc.config) THEN "" ELSE "none"
           outer == IF ShowOuter(sc.config) THEN "" ELSE "none"
       IN [sc EXCEPT
             !.inner = [k \in 1..Len(@) |-> [@[k] EXCEPT !.display = inner]],
             !.dual = [k \in 1..Len(@) |-> [@[k] EXCEPT !.display = outer]]]

\* updateDisplayMode: style.display of every primitive.  2.0.0 has none.
updateDisplayMode(v, sc) ==
  IF v = "v2" THEN sc
  ELSE LET inner == IF ShowInner(sc.config) THEN "" ELSE "none"
           outer == IF ShowOuter(sc.config) THEN "" ELSE "none"
       IN [sc EXCEPT
             !.inner = [k \in 1..Len(@) |-> [@[k] EXCEPT !.display = inner]],
             !.dual = [k \in 1..Len(@) |-> [@[k] EXCEPT !.display = outer]],
             !.circles = [k \in 1..Len(@) |-> [@[k] EXCEPT !.display = inner]]]

\* createSVG: the svg with the configured size, one line per edge in the
\* order of the edge list, circles when vertexRadius > 0.  3.0.0 gives every
\* line its coordinates and its base opacity; 2.0.0 and 3.1.0 leave both to
\* render.
createSVG(v, sc) ==
  LET cfg == sc.config
      geo == sc.geo.inner
      dgeo == sc.geo.dual
      early == v \in {"v30js", "v30ts"}
      dline(pdu, k) ==
        LET l == [BlankLine EXCEPT !.stroke = cfg.dualStrokeColor,
                                   !.width = cfg.dualStrokeWidth]
        IN IF early THEN [Placed(l, pdu, dgeo.edges[k]) EXCEPT
                            !.opacity = cfg.dualStrokeOpacity]
           ELSE l
      iline(pin, k) ==
        LET l == [BlankLine EXCEPT !.stroke = cfg.strokeColor,
                                   !.width = cfg.strokeWidth]
        IN IF early THEN [Placed(l, pin, geo.edges[k]) EXCEPT
                            !.opacity = cfg.strokeOpacity]
           ELSE l
      circle(pin, k) ==
        LET c == [BlankCircle EXCEPT !.r = cfg.vertexRadius, !.fill = cfg.vertexColor]
        IN IF early THEN [c EXCEPT !.cx = pin[k].x, !.cy = pin[k].y] ELSE c
      Created(pin, pdu) ==
        [sc EXCEPT !.svg = TRUE, !.svgSize = cfg.size,
                   !.dual = [k \in 1..Len(dgeo.edges) |-> dline(pdu, k)] \o <<>>,
                   !.inner = [k \in 1..Len(geo.edges) |-> iline(pin, k)] \o <<>>,
                   !.circles = IF cfg.vertexRadius > 0
                               THEN [k \in 1..Len(geo.vertices) |-> circle(pin, k)] \o <<>>
                               ELSE <<>>]
  IN With(Projected(cfg, geo.vertices, sc.rotation),
          LAMBDA pin :
            With(Projected(cfg, dgeo.vertices, sc.rotation),
                 LAMBDA pdu :
                   With(Created(pin, pdu), LAMBDA created : updateDisplayMode(v, created))))

\* render.  2.0.0 and 3.0.0 sort the edge data by avgZ and then write each
\* datum to the line of its own index, edgeElements[data.index]; 3.1.0
\* walks the edges in index order.  Either way line k takes the ends of
\* edge k, and the lines stay where createSVG appended them.  The opacity
\* is written when depthFading is on; when it is off only 2.0.0 writes the
\* base opacity.  3.1.0 skips a solid that is not shown.  In 2.0.0 the
\* vertex loop runs on vertexRadius > 0 alone and throws when there is no
\* circle.
render(v, sc) ==
  LET cfg == sc.config
      geo == sc.geo.inner
      dgeo == sc.geo.dual
      doInner == v # "v31" \/ ShowInner(cfg)
      doOuter == v # "v2" /\ (v # "v31" \/ ShowOuter(cfg))
      doCircles == IF v = "v31" THEN doInner ELSE cfg.vertexRadius > 0
      Lit(l, floor, base) ==
        IF cfg.depthFading
        THEN [l EXCEPT !.opacity = Faded(floor, l.depth, base)]
        ELSE IF v = "v2" THEN [l EXCEPT !.opacity = base] ELSE l
      iline(pin, k) ==
        With(Placed(sc.inner[k], pin, geo.edges[k]),
             LAMBDA l : Lit(l, FadeFloor(v, FALSE), cfg.strokeOpacity))
      dline(pdu, k) ==
        With(Placed(sc.dual[k], pdu, dgeo.edges[k]),
             LAMBDA l : Lit(l, FadeFloor(v, TRUE), cfg.dualStrokeOpacity))
      circle(pin, k) ==
        LET c == [sc.circles[k] EXCEPT !.cx = pin[k].x, !.cy = pin[k].y]
        IN IF cfg.depthFading
           THEN [c EXCEPT !.fillOpacity = Faded(FadeFloor(v, FALSE), pin[k].z, Milli)]
           ELSE c
      Rendered(pin, pdu) ==
        [sc EXCEPT
           !.dual = IF doOuter THEN [k \in 1..Len(@) |-> dline(pdu, k)] \o <<>> ELSE @,
           !.inner = IF doInner THEN [k \in 1..Len(@) |-> iline(pin, k)] \o <<>> ELSE @,
           !.circles = IF doCircles THEN [k \in 1..Len(@) |-> circle(pin, k)] \o <<>> ELSE @,
           !.threw = v = "v2" /\ cfg.vertexRadius > 0 /\ Len(sc.circles) = 0]
  IN With(Projected(cfg, geo.vertices, sc.rotation),
          LAMBDA pin :
            With(Projected(cfg, dgeo.vertices, sc.rotation),
                 LAMBDA pdu : Rendered(pin, pdu)))

\* setConfig: merge, then write to the primitives what newConfig names.
\* 2.0.0 and 3.0.0 js test size and the widths by truthiness, 3.0.0 ts and
\* 3.1.0 against undefined; the colors are tested by truthiness everywhere.
\* 2.0.0 tests vertexRadius by truthiness, 3.0.0 against undefined; 3.1.0
\* leaves the circles alone.  No revision writes an opacity here.
setConfig(v, sc, nc) ==
  LET cfg == MergeConfig(sc.config, nc)
      Has(f) == f \in DOMAIN nc
      TruthyNum(f) == Has(f) /\ nc[f] # 0
      TruthyStr(f) == Has(f) /\ nc[f] # ""
      Given(f) == IF v \in {"v30ts", "v31"} THEN Has(f) ELSE TruthyNum(f)
      GivenRadius == IF v = "v2" THEN TruthyNum("vertexRadius") ELSE Has("vertexRadius")
      iline(l) ==
        [l EXCEPT !.stroke = IF TruthyStr("strokeColor") THEN cfg.strokeColor ELSE @,
                  !.width = IF Given("strokeWidth") THEN cfg.strokeWidth ELSE @]
      dline(l) ==
        [l EXCEPT !.stroke = IF TruthyStr("dualStrokeColor") THEN cfg.dualStrokeColor ELSE @,
                  !.width = IF Given("dualStrokeWidth") THEN cfg.dualStrokeWidth ELSE @]
      circle(c) ==
        [c EXCEPT !.fill = IF TruthyStr("vertexColor") THEN cfg.vertexColor ELSE @,
                  !.r = IF GivenRadius THEN cfg.vertexRadius ELSE @]
      written ==
        [sc EXCEPT !.config = cfg,
                   !.svgSize = IF sc.svg /\ Given("size") THEN cfg.size ELSE @,
                   !.inner = [k \in 1..Len(@) |-> iline(@[k])],
                   !.dual = IF v = "v2" THEN @ ELSE [k \in 1..Len(@) |-> dline(@[k])],
                   !.circles = IF v = "v31" THEN @ ELSE [k \in 1..Len(@) |-> circle(@[k])]]
  IN IF v # "v2" /\ Has("displayMode") THEN updateDisplayMode(v, written) ELSE written

\* animate while auto-rotating: the rotation advances by
\* config.autoRotation, then render.
animateScene(v, sc) ==
  With([sc EXCEPT !.rotation = [x |-> @.x + sc.config.autoRotation.x,
                                y |-> @.y + sc.config.autoRotation.y,
                                z |-> @.z + sc.config.autoRotation.z]],
       LAMBDA turned : render(v, turned))

\* init with a container: the configuration from DEFAULT_CONFIG and
\* userConfig, createSVG, the first animate.
initScene(v, sc, userConfig) ==
  With([sc EXCEPT !.config = MergeConfig(DEFAULT_CONFIG(v), userConfig)],
       LAMBDA merged : With(createSVG(v, merged), LAMBDA created : animateScene(v, created)))

\* ---------------------------------------------------- the rendering's run
\* The objects init and setConfig are called with.
UserConfigs ==
  {<<>>, [vertexRadius |-> 2000], [depthFading |-> FALSE], [displayMode |-> "both"]}

ScenePatches ==
  {[size |-> 0], [size |-> 300],
   [strokeColor |-> "red"], [strokeWidth |-> 0], [strokeWidth |-> 2000],
   [strokeOpacity |-> 500],
   [dualStrokeColor |-> "red"], [dualStrokeWidth |-> 2000], [dualStrokeOpacity |-> 500],
   [vertexColor |-> "red"], [vertexRadius |-> 3000],
   [depthFading |-> FALSE], [displayMode |-> "both"],
   [depthFading |-> FALSE, strokeOpacity |-> 500]}

\* The module loaded, nothing created.
SceneInit ==
  /\ ver \in Versions
  /\ state = InitialState(ver)
  /\ config = [displayMode |-> "inner"]
  /\ comp = [svg |-> FALSE, containerEl |-> FALSE, animationId |-> "null"]
  /\ page = [hintPresent |-> FALSE, hint |-> "initial",
             hintTimerId |-> "null", orphans |-> 0, clickLeak |-> FALSE]
  /\ sched = [frames |-> 0, resume |-> 0, fade |-> 0, hide |-> 0]
  /\ pointer = [phase |-> "none", click |-> FALSE]
  /\ hist = [ev |-> "start", ret |-> "none", g |-> NoGesture,
             dragActive |-> FALSE, prevMode |-> "inner", n |-> 0]
  /\ gen = Idle
  /\ proj = Idle
  /\ store = Idle
  /\ rot = Idle
  /\ scene = [geo |-> [inner |-> InnerGeometry(ver), dual |-> DualGeometry(ver)],
              config |-> DEFAULT_CONFIG(ver), rotation |-> SceneRotation(ver),
              svg |-> FALSE, svgSize |-> 0,
              inner |-> <<>>, dual |-> <<>>, circles |-> <<>>, threw |-> FALSE,
              last |-> [ev |-> "load", nc |-> <<>>], setConfigs |-> 0, frames |-> 0,
              modeCalls |-> 0]

\* Polyhedron.init(container, userConfig), once.
SceneInitCall(userConfig) ==
  /\ ~scene.svg
  /\ \E sc \in {initScene(ver, scene, userConfig)} :
       scene' = [sc EXCEPT !.last = [ev |-> "init", nc |-> userConfig]]
  /\ UNCHANGED <<interaction, gen, proj, store, rot>>

\* Polyhedron.setConfig(nc)
SceneSetConfig(nc) ==
  /\ scene.setConfigs < MaxSetConfigs
  /\ \E sc \in {setConfig(ver, scene, nc)} :
       scene' = [sc EXCEPT !.last = [ev |-> "setConfig", nc |-> nc], !.setConfigs = @ + 1]
  /\ UNCHANGED <<interaction, gen, proj, store, rot>>

\* The host runs the frame callback init has requested.
SceneFrame ==
  /\ scene.svg
  /\ scene.frames < MaxSceneFrames
  /\ \E sc \in {animateScene(ver, scene)} :
       scene' = [sc EXCEPT !.last = [ev |-> "frame", nc |-> <<>>], !.frames = @ + 1]
  /\ UNCHANGED <<interaction, gen, proj, store, rot>>

SceneNext ==
  \/ \E userConfig \in UserConfigs : SceneInitCall(userConfig)
  \/ \E nc \in ScenePatches : SceneSetConfig(nc)
  \/ SceneFrame

RenderSpec == SceneInit /\ [][SceneNext]_vars

\* ------------------------------------------------ the display mode's run
\* cycleDisplayMode on the primitives: the next mode, then updateDisplayMode.
cycleDisplayModeScene(v, sc) ==
  With([sc EXCEPT !.config.displayMode = NextMode(@)],
       LAMBDA stepped : updateDisplayMode(v, stepped))

\* setDisplayMode on the primitives.
setDisplayModeScene(v, sc, mode) ==
  With([sc EXCEPT !.config.displayMode = mode],
       LAMBDA set : updateDisplayMode(v, set))

\* Calls that may change the display mode in a run, and frames.
MaxModeCalls == 2
MaxModeFrames == 1

ModeUserConfigs ==
  {<<>>, [displayMode |-> "outer"], [displayMode |-> "both", vertexRadius |-> 2000],
   [vertexRadius |-> 2000]}

ModePatches ==
  {[displayMode |-> "inner"], [displayMode |-> "outer"], [displayMode |-> "both"],
   [strokeColor |-> "red"], [vertexRadius |-> 3000]}

\* A revision with display modes loaded, nothing created.
ModeInit == SceneInit /\ ver # "v2"

ModeInitCall(userConfig) ==
  /\ ~scene.svg
  /\ \E sc \in {initScene(ver, scene, userConfig)} :
       scene' = [sc EXCEPT !.last = [ev |-> "init", nc |-> userConfig]]
  /\ UNCHANGED <<interaction, gen, proj, store, rot>>

\* Polyhedron.cycleDisplayMode()
ModeCycle ==
  /\ scene.svg
  /\ scene.modeCalls < MaxModeCalls
  /\ \E sc \in {cycleDisplayModeScene(ver, scene)} :
       scene' = [sc EXCEPT !.last = [ev |-> "cycle", nc |-> <<>>], !.modeCalls = @ + 1]
  /\ UNCHANGED <<interaction, gen, proj, store, rot>>

\* Polyhedron.setDisplayMode(mode)
ModeSetDisplayMode(mode) ==
  /\ scene.svg
  /\ scene.modeCalls < MaxModeCalls
  /\ \E sc \in {setDisplayModeScene(ver, scene, mode)} :
       scene' = [sc EXCEPT !.last = [ev |-> "setMode", nc |-> <<>>], !.modeCalls = @ + 1]
  /\ UNCHANGED <<interaction, gen, proj, store, rot>>

\* Polyhedron.setConfig(nc)
ModeSetConfig(nc) ==
  /\ scene.svg
  /\ scene.modeCalls < MaxModeCalls
  /\ \E sc \in {setConfig(ver, scene, nc)} :
       scene' = [sc EXCEPT !.last = [ev |-> "setConfig", nc |-> nc], !.modeCalls = @ + 1]
  /\ UNCHANGED <<interaction, gen, proj, store, rot>>

\* A tap or click on the svg whose handlers call cycleDisplayMode.
ModeTap ==
  /\ scene.svg
  /\ scene.modeCalls < MaxModeCalls
  /\ \E sc \in {cycleDisplayModeScene(ver, scene)} :
       scene' = [sc EXCEPT !.last = [ev |-> "tap", nc |-> <<>>], !.modeCalls = @ + 1]
  /\ UNCHANGED <<interaction, gen, proj, store, rot>>

\* A frame: animate, which renders.
ModeFrame ==
  /\ scene.svg
  /\ scene.frames < MaxModeFrames
  /\ \E sc \in {animateScene(ver, scene)} :
       scene' = [sc EXCEPT !.last = [ev |-> "frame", nc |-> <<>>], !.frames = @ + 1]
  /\ UNCHANGED <<interaction, gen, proj, store, rot>>

ModeNext ==
  \/ \E userConfig \in ModeUserConfigs : ModeInitCall(userConfig)
  \/ ModeCycle
  \/ \E mode \in ModeSet : ModeSetDisplayMode(mode)
  \/ \E nc \in ModePatches : ModeSetConfig(nc)
  \/ ModeTap
  \/ ModeFrame

ModeSpec == ModeInit /\ [][ModeNext]_vars

\* ------------------------------------------- the configuration objects
\* The objects that hold an auto-rotation triple: the one DEFAULT_CONFIG
\* refers to, and those made by init, by setConfig and by nothing else.  A
\* configuration object holds a reference to one of them.
DefaultTriple == "D"
TripleIds == {"D", "A", "B", "C"}
NoTriple == [x |-> 0, y |-> 0, z |-> 0]

\* The ids in use: DEFAULT_CONFIG's, config's, and the copy's if one is out.
Referenced(st) ==
  {DefaultTriple, st.config.autoRotation}
    \cup (IF st.copy.out THEN {st.copy.autoRotation} ELSE {})

\* An object no reference leads to is gone.
Collect(st) ==
  [st EXCEPT !.objects = [id \in TripleIds |->
                            IF id \in Referenced(st) THEN st.objects[id] ELSE NoTriple]]

\* The id of a new object.
Fresh(st) == CHOOSE id \in TripleIds : id \notin Referenced(st)

\* { ...base, ...nc, autoRotation: { ...base.autoRotation,
\*   ...(nc.autoRotation || {}) } } assigned to config: the top level is
\* copied and the triple is a new object.
Assigned(st, base, nc) ==
  LET id == Fresh(st)
      triple == MergeConfig([autoRotation |-> st.objects[base.autoRotation]],
                            [f \in DOMAIN nc \cap {"autoRotation"} |-> nc[f]]).autoRotation
  IN Collect([st EXCEPT
                !.config = [size |-> IF "size" \in DOMAIN nc THEN nc.size ELSE base.size,
                            autoRotation |-> id],
                !.objects = [@ EXCEPT ![id] = triple]])

\* init with a container: from DEFAULT_CONFIG and userConfig.
initConfig(st, userConfig) == Assigned(st, st.default, userConfig)

\* setConfig: from config and newConfig.
setConfigObject(st, nc) == Assigned(st, st.config, nc)

\* get config() { return { ...config }; }: a new object with config's
\* fields; its autoRotation is the reference config has.
configGetter(st) ==
  Collect([st EXCEPT !.copy = [out |-> TRUE, size |-> st.config.size,
                               autoRotation |-> st.config.autoRotation]])

\* copy.size = value
writeCopyField(st, value) == [st EXCEPT !.copy.size = value]

\* copy.autoRotation[axis] = value
writeCopyTriple(st, axis, value) ==
  [st EXCEPT !.objects[st.copy.autoRotation] = [@ EXCEPT ![axis] = value]]

\* What the program reads as its configuration, and what a later init
\* reads as the default.
EffectiveConfig(st) ==
  [size |-> st.config.size, autoRotation |-> st.objects[st.config.autoRotation]]

EffectiveDefault(st) ==
  [size |-> st.default.size, autoRotation |-> st.objects[st.default.autoRotation]]

\* API calls in a run.
MaxStoreCalls == 4

StoreValues == {0, 50}
StorePatches == {<<>>, [size |-> 100], [autoRotation |-> [x |-> 1]]}

\* The module loaded: let config = { ...DEFAULT_CONFIG }, which shares
\* DEFAULT_CONFIG's triple.
StoreInit ==
  /\ ver \in Versions
  /\ state = InitialState(ver)
  /\ config = [displayMode |-> "inner"]
  /\ comp = [svg |-> FALSE, containerEl |-> FALSE, animationId |-> "null"]
  /\ page = [hintPresent |-> FALSE, hint |-> "initial",
             hintTimerId |-> "null", orphans |-> 0, clickLeak |-> FALSE]
  /\ sched = [frames |-> 0, resume |-> 0, fade |-> 0, hide |-> 0]
  /\ pointer = [phase |-> "none", click |-> FALSE]
  /\ hist = [ev |-> "start", ret |-> "none", g |-> NoGesture,
             dragActive |-> FALSE, prevMode |-> "inner", n |-> 0]
  /\ gen = Idle
  /\ proj = Idle
  /\ scene = Idle
  /\ rot = Idle
  /\ store = [objects |-> [id \in TripleIds |->
                             IF id = DefaultTriple THEN DEFAULT_CONFIG(ver).autoRotation
                             ELSE NoTriple],
              default |-> [size |-> DEFAULT_CONFIG(ver).size, autoRotation |-> DefaultTriple],
              config |-> [size |-> DEFAULT_CONFIG(ver).size, autoRotation |-> DefaultTriple],
              copy |-> [out |-> FALSE, size |-> 0, autoRotation |-> DefaultTriple],
              last |-> "load", calls |-> 0]

StoreCall(ev, st) ==
  /\ store' = [st EXCEPT !.last = ev, !.calls = @ + 1]
  /\ UNCHANGED <<interaction, gen, proj, scene, rot>>

\* Polyhedron.init(container, userConfig)
StoreInitCall(userConfig) ==
  /\ store.calls < MaxStoreCalls
  /\ StoreCall("init", initConfig(store, userConfig))

\* Polyhedron.setConfig(nc)
StoreSetConfig(nc) ==
  /\ store.calls < MaxStoreCalls
  /\ StoreCall("setConfig", setConfigObject(store, nc))

\* const c = Polyhedron.config
StoreGet ==
  /\ store.calls < MaxStoreCalls
  /\ StoreCall("get", configGetter(store))

\* c.size = value
StoreWriteField(value) ==
  /\ store.calls < MaxStoreCalls
  /\ store.copy.out
  /\ StoreCall("write", writeCopyField(store, value))

\* c.autoRotation.x = value, and so for y and z
StoreWriteTriple(axis, value) ==
  /\ store.calls < MaxStoreCalls
  /\ store.copy.out
  /\ StoreCall("write", writeCopyTriple(store, axis, value))

StoreNext ==
  \/ \E userConfig \in StorePatches : StoreInitCall(userConfig)
  \/ \E nc \in StorePatches : StoreSetConfig(nc)
  \/ StoreGet
  \/ \E value \in StoreValues : StoreWriteField(value)
  \/ \E axis \in {"x", "y", "z"}, value \in StoreValues : StoreWriteTriple(axis, value)

ConfigSpec == StoreInit /\ [][StoreNext]_vars

\* ------------------------------------------------- rotatePoint's run
\* Math.cos and Math.sin of a whole number of quarter turns.
QuarterCos(q) == CASE q % 4 = 0 -> 1 [] q % 4 = 1 -> 0 [] q % 4 = 2 -> -1 [] q % 4 = 3 -> 0

QuarterSin(q) == CASE q % 4 = 0 -> 0 [] q % 4 = 1 -> 1 [] q % 4 = 2 -> 0 [] q % 4 = 3 -> -1

\* rotateX, rotateY and rotateZ of 3.0.0 by a number of quarter turns.
rotateXQuarter(point, q) ==
  <<point[1],
    point[2] * QuarterCos(q) - point[3] * QuarterSin(q),
    point[2] * QuarterSin(q) + point[3] * QuarterCos(q)>>

rotateYQuarter(point, q) ==
  <<point[1] * QuarterCos(q) + point[3] * QuarterSin(q),
    point[2],
    (-point[1]) * QuarterSin(q) + point[3] * QuarterCos(q)>>

rotateZQuarter(point, q) ==
  <<point[1] * QuarterCos(q) - point[2] * QuarterSin(q),
    point[1] * QuarterSin(q) + point[2] * QuarterCos(q),
    point[3]>>

\* rotatePoint of 3.0.0: rotateX, then rotateY, then rotateZ.
rotatePointSequential(point, rotation) ==
  rotateZQuarter(rotateYQuarter(rotateXQuarter(point, rotation.x), rotation.y), rotation.z)

\* A plausible slip: z2 takes p[0] * sy with the wrong sign.
rotatePointFusedSignSlip(p, r) ==
  LET cx == QuarterCos(r.x)  sx == QuarterSin(r.x)
      cy == QuarterCos(r.y)  sy == QuarterSin(r.y)
      cz == QuarterCos(r.z)  sz == QuarterSin(r.z)
      y1 == p[2] * cx - p[3] * sx
      z1 == p[2] * sx + p[3] * cx
      x2 == p[1] * cy + z1 * sy
      z2 == p[1] * sy + z1 * cy
  IN <<x2 * cz - y1 * sz, x2 * sz + y1 * cz, z2>>

\* rotatePoint of 3.1.0, the three rotations in one expression.
rotatePointFused(p, r) ==
  LET cx == QuarterCos(r.x)  sx == QuarterSin(r.x)
      cy == QuarterCos(r.y)  sy == QuarterSin(r.y)
      cz == QuarterCos(r.z)  sz == QuarterSin(r.z)
      y1 == p[2] * cx - p[3] * sx
      z1 == p[2] * sx + p[3] * cx
      x2 == p[1] * cy + z1 * sy
      z2 == (-p[1]) * sy + z1 * cy
  IN <<x2 * cz - y1 * sz, x2 * sz + y1 * cz, z2>>

\* The coordinates of a point, and the quarter turns of an angle.
RotCoords == {-1, 0, 2}
RotQuarters == -1..4

RotPoints == RotCoords \X RotCoords \X RotCoords
RotRotations == [x : RotQuarters, y : RotQuarters, z : RotQuarters]

RotInit ==
  /\ ver \in Versions
  /\ state = InitialState(ver)
  /\ config = [displayMode |-> "inner"]
  /\ comp = [svg |-> FALSE, containerEl |-> FALSE, animationId |-> "null"]
  /\ page = [hintPresent |-> FALSE, hint |-> "initial",
             hintTimerId |-> "null", orphans |-> 0, clickLeak |-> FALSE]
  /\ sched = [frames |-> 0, resume |-> 0, fade |-> 0, hide |-> 0]
  /\ pointer = [phase |-> "none", click |-> FALSE]
  /\ hist = [ev |-> "start", ret |-> "none", g |-> NoGesture,
             dragActive |-> FALSE, prevMode |-> "inner", n |-> 0]
  /\ gen = Idle
  /\ proj = Idle
  /\ scene = Idle
  /\ store = Idle
  /\ rot = Idle

\* rotatePoint(point, rotation) as the revision that runs has it, once.
RotCall(point, rotation) ==
  /\ rot = Idle
  /\ rot' = [pc |-> "returned", point |-> point, rotation |-> rotation,
             result |-> IF ver = "v31" THEN rotatePointFused(point, rotation)
                        ELSE rotatePointSequential(point, rotation)]
  /\ UNCHANGED <<interaction, gen, proj, scene, store>>

RotNext == \E point \in RotPoints, rotation \in RotRotations : RotCall(point, rotation)

RotSpec == RotInit /\ [][RotNext]_vars

\* ------------------------------------------------------------- properties
\* The rotation a drag from p0 to p1 is documented to add, on each axis.
DragDelta == [y |-> (hist.g.p1[1] - hist.g.p0[1]) * DragSensitivity(ver),
              x |-> (hist.g.p1[2] - hist.g.p0[2]) * DragSensitivity(ver)]

\* The gesture in the record has completed: a touch gesture at its touchend, a
\* mouse gesture at the click that follows its mouseup.
GestureCompleted ==
  /\ ver # "v2"
  /\ hist.g.phase = "done"
  /\ \/ hist.g.kind = "touch" /\ hist.ev = "up"
     \/ hist.g.kind = "mouse" /\ hist.ev = "click"

\* C1: after a gesture of a pointer-down, one move that classifies it as a
\* drag and a pointer-up, rotation.y has grown by exactly
\* (x1 - x0) * dragSensitivity and rotation.x by (y1 - y0) * dragSensitivity
\* since the pointer-down, whatever frame ticks ran in between.
C1_DragRotatesByDelta ==
  (hist.ev = "up" /\ hist.g.phase # "none" /\ hist.g.drag /\ hist.g.moves = 1)
    => /\ state.rotation.y - hist.g.rot0.y = DragDelta.y
       /\ state.rotation.x - hist.g.rot0.x = DragDelta.x

\* C2: from the move that classifies a gesture as a drag until the resume
\* timer fires (or a new pointer-down or destroy ends the wait),
\* isAutoRotating is false.
C2_NoAutoRotationUntilTimer == hist.dragActive => ~state.isAutoRotating

\* C2 witness: a drag has been released and clicked, its resume timer is still
\* pending.
C2_Witness ==
  hist.dragActive /\ hist.ev = "click" /\ hist.g.drag /\ sched.resume = 1

\* C3: right after the pointer-up that ends a drag gesture, mouse or touch, a
\* resume timer is pending.
C3_TimerPendingAfterDrag ==
  (hist.ev = "up" /\ hist.g.phase \in {"released", "done"} /\ hist.g.drag)
    => sched.resume > 0

\* C4: a pointer-down cancels the pending resume timer: none is pending right
\* after it, nor for as long as the pointer is held down.
C4_DownCancelsTimer ==
  (hist.ev = "down" \/ state.isDragging) => sched.resume = 0

\* C4 witness: a pointer-down arrived while the component was coasting with a
\* resume timer pending.
C4_Witness == hist.ev = "down" /\ hist.g.coasting0 /\ state.isDragging

\* C5: right after every pointer-down isAutoRotating is false.
C5_DownStopsAutoRotation == hist.ev = "down" => ~state.isAutoRotating

\* C6: a completed gesture without any move, mouse or touch, has advanced the
\* display mode by exactly one step of the cycle and none of its handlers has
\* changed state.rotation.
C6_TapAdvancesModeOnce ==
  (GestureCompleted /\ hist.g.moves = 0)
    => hist.g.steps = 1 /\ hist.g.inOrder /\ ~hist.g.rotTouched

\* C7: once a gesture that never became a drag has completed, isAutoRotating
\* is true and no resume timer is pending.
C7_NonDragLeavesAutoRotating ==
  (GestureCompleted /\ ~hist.g.drag)
    => state.isAutoRotating /\ sched.resume = 0

C9_CycleOrder ==
  /\ hist.ev = "cycle"
       => /\ config.displayMode = Successor(hist.prevMode)
          /\ hist.ret = config.displayMode
  /\ ver # "v2"
       => cycleDisplayMode(cycleDisplayMode(cycleDisplayMode(World))).config.displayMode
            = config.displayMode

\* C9 witness: a call of cycleDisplayMode took the mode from both back to inner.
C9_Witness ==
  hist.ev = "cycle" /\ hist.prevMode = "both" /\ config.displayMode = "inner"

\* C10: right after destroy no frame callback and no deferred timer (resume,
\* label fade, label hide) is pending, and no listener is left on an svg.
C10_NothingPendingAfterDestroy ==
  hist.ev = "destroy"
    => /\ sched.frames = 0
       /\ sched.resume = 0
       /\ sched.fade = 0
       /\ sched.hide = 0
       /\ ~page.clickLeak
       /\ page.orphans = 0

\* C11: after destroy, called in any state, rotation, velocity, the
\* pointer-down flag, the drag-classification flags and isAutoRotating have
\* their initial values, and a second destroy right after changes nothing.
C11_DestroyResetsState ==
  /\ hist.ev = "destroy"
       => /\ state.rotation = InitialState(ver).rotation
          /\ state.velocity = InitialState(ver).velocity
          /\ state.isDragging = InitialState(ver).isDragging
          /\ state.wasDragging = InitialState(ver).wasDragging
          /\ state.didMove = InitialState(ver).didMove
          /\ state.isAutoRotating = InitialState(ver).isAutoRotating
  /\ destroy(ver, destroy(ver, World)) = destroy(ver, World)

\* C12: init with a container that does not resolve returns false, creates
\* no primitive, attaches no listener, starts no frame callback and leaves
\* the configuration, the rotation, the velocity and the flags as they were.
C12_FailedInitChangesNothing ==
  [][InitFail => /\ hist'.ret = "false"
                 /\ state' = state
                 /\ config' = config
                 /\ comp'.svg = comp.svg
                 /\ comp'.animationId = comp.animationId
                 /\ sched' = sched
                 /\ page' = page]_vars

\* C12 witness: init failed on a component that an earlier init had set up
\* with a display mode other than the default.
C12_Witness ==
  hist.ev = "initFail" /\ hist.ret = "false" /\ comp.svg /\ config.displayMode = "both"

\* C17: generateTriakisIcosahedron returns 32 vertices, the 12 base vertices
\* and one apex per face, and 90 edges: 60 from an apex to a corner and the
\* 30 distinct boundary edges that remain of the 60 mentioned.
C17_TriakisCounts ==
  (gen.pc = "done" /\ gen.solid = "triakis") =>
    LET e == gen.result.edges
        base == Len(ICO_VERTICES_RAW)
        apexEdges == {k \in 1..Len(e) : e[k][1] >= base \/ e[k][2] >= base}
        boundary == {k \in 1..Len(e) : e[k][1] < base /\ e[k][2] < base}
    IN /\ Len(gen.result.vertices) = 32
       /\ base = 12 /\ Len(gen.result.vertices) - base = 20
       /\ Len(e) = 90
       /\ Cardinality(apexEdges) = 60
       /\ Cardinality(boundary) = 30
       /\ 3 * Len(ICO_FACES) = 60
       /\ gen.result = generateTriakisIcosahedron(gen.rev)

C17_Witness ==
  /\ gen.pc = "done" /\ gen.solid = "triakis" /\ gen.rev = "v30"
  /\ Len(gen.result.edges) = 90

\* C18: generateTruncatedDodecahedron returns 60 vertices and 90 edges: the
\* proximity rule (distance below 2/phi * DUAL_SCALE / maxDist * 1.1) holds
\* of exactly 90 unordered pairs of vertices, and every vertex has exactly
\* 3 neighbours.
C18_DodecahedronCounts ==
  (gen.pc = "done" /\ gen.solid = "dual") =>
    LET e == gen.result.edges
        V == 0..(Len(gen.result.vertices) - 1)
        near == {p \in V \X V : p[1] < p[2] /\
                   Near(gen.rev, gen.result.vertices, edgeLength, p[1], p[2])}
        Neighbours(v) == {k \in 1..Len(e) : e[k][1] = v \/ e[k][2] = v}
    IN /\ Len(gen.result.vertices) = 60
       /\ Len(e) = 90
       /\ Cardinality(near) = 90
       /\ {e[k] : k \in 1..Len(e)} = near
       /\ \A v \in V : Cardinality(Neighbours(v)) = 3
       /\ gen.result = generateTruncatedDodecahedron(gen.rev)

C18_Witness ==
  /\ gen.pc = "done" /\ gen.solid = "dual" /\ gen.rev = "v31"
  /\ Len(gen.result.vertices) = 60

\* C19: in the edge list either generator returns, both indices of an edge
\* are indices of the vertex list, no edge joins a vertex to itself, and no
\* unordered pair of vertices occurs twice.
C19_EdgeListWellFormed ==
  gen.pc = "done" =>
    LET e == gen.result.edges
        V == 0..(Len(gen.result.vertices) - 1)
    IN /\ \A k \in 1..Len(e) : e[k][1] \in V /\ e[k][2] \in V /\ e[k][1] # e[k][2]
       /\ \A k, l \in 1..Len(e) :
            k # l => {e[k][1], e[k][2]} # {e[l][1], e[l][2]}

C19_Witness ==
  /\ gen.pc = "done" /\ gen.solid = "dual" /\ gen.rev = "v30"
  /\ Len(gen.result.edges) > 0

\* C20: project returns x = size/2 + x * scale, y = size/2 - y * scale and
\* z unchanged, with the size and scale of the configuration in effect at
\* the call; with scale 1 and size 0 it returns {x, -y, z}.
C20_ProjectFormula ==
  proj.pc = "returned" =>
    LET c == proj.config
        p == proj.point
        r == proj.result
    IN /\ 2 * r.x = c.size * Milli + 2 * p[1] * c.scale
       /\ 2 * r.y = c.size * Milli - 2 * p[2] * c.scale
       /\ r.z = p[3]
       /\ (c.scale = 1 /\ c.size = 0) => r = [x |-> p[1], y |-> -p[2], z |-> p[3]]

C20_Witness ==
  /\ proj.pc = "returned" /\ proj.config.scale = 1 /\ proj.config.size = 0
  /\ proj.point = <<500, -1000, 500>> /\ proj.result.y = 1000

\* What a setConfig(nc) step from sc to tc owes a primitive's attribute:
\* the value nc gives param, or with no such value the one it had.
Owed(nc, param, before) == IF param \in DOMAIN nc THEN nc[param] ELSE before

\* C13: when setConfig(nc) returns, before any further frame, every visual
\* parameter nc names (canvas size; stroke color, width and opacity of the
\* inner and of the dual lines; vertex color and radius) has its new value
\* on every existing primitive, whatever the value, and every parameter nc
\* does not name has the value it had.
C13_SetConfigReachesPrimitives ==
  [][(scene'.last.ev = "setConfig" /\ scene'.setConfigs = scene.setConfigs + 1) =>
       LET nc == scene'.last.nc
       IN /\ scene.svg => scene'.svgSize = Owed(nc, "size", scene.svgSize)
          /\ \A k \in 1..Len(scene.inner) :
               /\ scene'.inner[k].stroke = Owed(nc, "strokeColor", scene.inner[k].stroke)
               /\ scene'.inner[k].width = Owed(nc, "strokeWidth", scene.inner[k].width)
               /\ scene'.inner[k].opacity = Owed(nc, "strokeOpacity", scene.inner[k].opacity)
          /\ \A k \in 1..Len(scene.dual) :
               /\ scene'.dual[k].stroke = Owed(nc, "dualStrokeColor", scene.dual[k].stroke)
               /\ scene'.dual[k].width = Owed(nc, "dualStrokeWidth", scene.dual[k].width)
               /\ scene'.dual[k].opacity = Owed(nc, "dualStrokeOpacity", scene.dual[k].opacity)
          /\ \A k \in 1..Len(scene.circles) :
               /\ scene'.circles[k].fill = Owed(nc, "vertexColor", scene.circles[k].fill)
               /\ scene'.circles[k].r = Owed(nc, "vertexRadius", scene.circles[k].r)
     ]_vars

\* render has just run: init's first animate, or a frame.
JustRendered == scene.last.ev \in {"init", "frame"}

\* C15: after every render the lines of a solid that is shown are in
\* back-to-front drawing order: in the order of the lines in their group,
\* the avgZ of the segments they show does not decrease.
C15_LinesBackToFront ==
  JustRendered =>
    /\ ShowInner(scene.config) =>
         \A k, l \in 1..Len(scene.inner) :
           k < l => scene.inner[k].depth <= scene.inner[l].depth
    /\ ShowOuter(scene.config) =>
         \A k, l \in 1..Len(scene.dual) :
           k < l => scene.dual[k].depth <= scene.dual[l].depth

\* C16: with depthFading off, after each render every line of a solid that
\* is shown has the configured base opacity of its class: strokeOpacity for
\* the inner lines, dualStrokeOpacity for the dual lines.
C16_BaseOpacityWithoutFading ==
  (JustRendered /\ ~scene.config.depthFading) =>
    /\ ShowInner(scene.config) =>
         \A k \in 1..Len(scene.inner) : scene.inner[k].opacity = scene.config.strokeOpacity
    /\ ShowOuter(scene.config) =>
         \A k \in 1..Len(scene.dual) :
           scene.dual[k].opacity = scene.config.dualStrokeOpacity

\* C14: the config accessor returns a copy: a write to any of its fields,
\* those of the nested auto-rotation triple included, changes neither the
\* configuration the program reads nor the default a later init starts
\* from.
C14_ConfigCopyIsDetached ==
  [][store'.last = "write" =>
       /\ EffectiveConfig(store') = EffectiveConfig(store)
       /\ EffectiveDefault(store') = EffectiveDefault(store)]_vars

\* C21: a completed gesture whose moves all stayed within the drag threshold
\* of the down position, so that it never became a drag, has advanced the
\* display mode by exactly one step of the cycle, as a gesture without a move
\* does.
C21_SmallMoveIsClick ==
  (GestureCompleted /\ hist.g.moves > 0 /\ ~hist.g.drag)
    => hist.g.steps = 1 /\ hist.g.inOrder

\* The squared distance of two pointer positions.
DistSq(p, q) == (p[1] - q[1]) * (p[1] - q[1]) + (p[2] - q[2]) * (p[2] - q[2])

NotYetDrag ==
  /\ state.isDragging
  /\ hist.g.phase = "down"
  /\ hist.g.moves = 0 \/ (ver # "v2" /\ ~hist.g.drag)

\* C23: a pointer-move while no pointer is down, and a pointer-move that
\* leaves its gesture unclassified (the gesture was not a drag before and the
\* move stays within 5 pixels of the down position), change neither rotation
\* nor velocity.
C23_MoveRotatesOnlyInDragging ==
  [][((\E p \in Positions : PointerMove(p))
        /\ \/ ~state.isDragging
           \/ NotYetDrag /\ DistSq(state'.lastPointer, hist.g.p0) <= 5 * 5)
       => /\ state'.rotation = state.rotation
          /\ state'.velocity = state.velocity]_vars

\* C24: after a pointer-move of a gesture that is a drag, velocity.x is the
\* move's vertical delta and velocity.y its horizontal delta, both measured
\* from the pointer position recorded before the move and scaled by
\* dragSensitivity, whatever the velocity and the moves before.
C24_VelocityIsLastDelta ==
  [][((\E p \in Positions : PointerMove(p)) /\ state.isDragging /\ hist'.g.drag)
       => state'.velocity =
            [x |-> (state'.lastPointer[2] - state.lastPointer[2]) * DragSensitivity(ver),
             y |-> (state'.lastPointer[1] - state.lastPointer[1]) * DragSensitivity(ver)]]_vars

\* C24 witness: the second move of a drag has left a velocity sample that is
\* neither the sample of the first move nor the delta since the down position.
C24_Witness ==
  /\ hist.ev = "move" /\ hist.g.moves = 2 /\ hist.g.drag /\ state.isDragging
  /\ state.velocity.y # (hist.g.p1[1] - hist.g.p0[1]) * DragSensitivity(ver)
  /\ state.velocity.y # (state.lastPointer[1] - hist.g.p0[1]) * DragSensitivity(ver)

\* C25: a run of animate (a frame callback, or the call at the end of init)
\* does one of three things to the orientation: auto-rotating, it adds the
\* configured auto-rotation triple to rotation and keeps velocity; else with
\* no pointer down, it adds velocity to rotation.x and rotation.y, keeps
\* rotation.z and multiplies both velocity components by momentumDamping
\* (19/20); else it keeps rotation and velocity.
C25_TickAdvancesOrientation ==
  [][(Tick \/ \E dm \in ModeSet \cup {"absent"} : InitOk(dm))
       => IF state.isAutoRotating
          THEN /\ state'.rotation.x = state.rotation.x + AutoRotation(ver).x
               /\ state'.rotation.y = state.rotation.y + AutoRotation(ver).y
               /\ state'.rotation.z = state.rotation.z + AutoRotation(ver).z
               /\ state'.velocity = state.velocity
          ELSE IF ~state.isDragging
          THEN /\ state'.rotation.x = state.rotation.x + state.velocity.x
               /\ state'.rotation.y = state.rotation.y + state.velocity.y
               /\ state'.rotation.z = state.rotation.z
               /\ state'.velocity.x * DampingDen = state.velocity.x * DampingNum
               /\ state'.velocity.y * DampingDen = state.velocity.y * DampingNum
          ELSE /\ state'.rotation = state.rotation
               /\ state'.velocity = state.velocity]_vars

\* C25 witness: a frame has run while coasting after a drag: the velocity is
\* a damped one, no longer a multiple of dragSensitivity.
C25_Witness ==
  /\ ~state.isAutoRotating /\ ~state.isDragging
  /\ state.velocity.x # 0
  /\ state.velocity.x % DragSensitivity(ver) # 0

\* A primitive is visible: its style.display is not none.
Visible(prim) == prim.display # "none"

\* C26: once init has succeeded, after any cycleDisplayMode, setDisplayMode,
\* setConfig, tap and frame, every edge line and vertex circle of the primary
\* solid is visible exactly if the display mode is inner or both, and every
\* edge line of the dual solid exactly if it is outer or both.
C26_VisibilityFollowsMode ==
  scene.svg =>
    /\ \A k \in 1..Len(scene.inner) :
         Visible(scene.inner[k]) <=> scene.config.displayMode \in {"inner", "both"}
    /\ \A k \in 1..Len(scene.circles) :
         Visible(scene.circles[k]) <=> scene.config.displayMode \in {"inner", "both"}
    /\ \A k \in 1..Len(scene.dual) :
         Visible(scene.dual[k]) <=> scene.config.displayMode \in {"outer", "both"}

\* C26 witness: a tap after another call has hidden the primary solid, vertex
\* circles included, and shows the dual.
C26_Witness ==
  /\ scene.svg /\ scene.last.ev = "tap" /\ scene.modeCalls = 2
  /\ scene.config.displayMode = "outer"
  /\ Len(scene.inner) > 0 /\ Len(scene.circles) > 0 /\ Len(scene.dual) > 0
  /\ ~Visible(scene.circles[1]) /\ ~Visible(scene.inner[1]) /\ Visible(scene.dual[1])

\* C27: a frame's render leaves every primitive of a solid that the display
\* mode hides as it was: the lines and circles of the primary solid in mode
\* outer, the lines of the dual solid in mode inner.
C27_HiddenSolidUntouched ==
  [][ModeFrame
       => /\ scene.config.displayMode = "outer"
               => scene'.inner = scene.inner /\ scene'.circles = scene.circles
          /\ scene.config.displayMode = "inner"
               => scene'.dual = scene.dual]_vars

\* The three rotations applied in a given order of the axes.
AxisTurn(axis, point, rotation) ==
  CASE axis = "x" -> rotateXQuarter(point, rotation.x)
    [] axis = "y" -> rotateYQuarter(point, rotation.y)
    [] axis = "z" -> rotateZQuarter(point, rotation.z)

InOrder(order, point, rotation) ==
  AxisTurn(order[3], AxisTurn(order[2], AxisTurn(order[1], point, rotation), rotation),
           rotation)

OtherOrders ==
  {<<"x", "z", "y">>, <<"y", "x", "z">>, <<"y", "z", "x">>,
   <<"z", "x", "y">>, <<"z", "y", "x">>}

\* C28: for integer points and rotations by whole quarter turns, the fused
\* rotatePoint of 3.1.0 returns what rotateX by rotation.x, then rotateY by
\* rotation.y, then rotateZ by rotation.z return, and for each other order of
\* the three some point and rotation give a different result.
C28_FusedEqualsSequential ==
  /\ (rot.pc = "returned" /\ ver = "v31")
       => /\ rot.result = rotatePointFused(rot.point, rot.rotation)
          /\ rot.result
               = rotateZQuarter(rotateYQuarter(rotateXQuarter(rot.point, rot.rotation.x),
                                               rot.rotation.y),
                                rot.rotation.z)
  /\ \A order \in OtherOrders :
       \E point \in RotPoints, rotation \in RotRotations :
         rotatePointFused(point, rotation) # InOrder(order, point, rotation)

\* C28 witness: the fused rotatePoint has returned a result that no other
\* order of the three rotations gives.
C28_Witness ==
  /\ rot.pc = "returned" /\ ver = "v31"
  /\ rot.result = rotatePointSequential(rot.point, rot.rotation)
  /\ \A order \in OtherOrders : rot.result # InOrder(order, rot.point, rot.rotation)

\* C29: whatever init and destroy calls and frames a run has had, at most one
\* frame callback is pending, and none right after a destroy.
C29_OneFrameCallback ==
  /\ sched.frames <= 1
  /\ hist.ev = "destroy" => sched.frames = 0

\* C30: at most one auto-resume timer is pending; none is pending while the
\* pointer is down; and no step that begins and ends with the pointer down
\* takes isAutoRotating from false to true.
C30_OneResumeTimer ==
  /\ [](sched.resume <= 1)
  /\ [](state.isDragging => sched.resume = 0)
  /\ [][(state.isDragging /\ state'.isDragging /\ ~state.isAutoRotating)
          => ~state'.isAutoRotating]_vars

\* C30 witness: a pointer went down while a resume timer was pending, has
\* moved and is still held, auto-rotation off and no timer pending.
C30_Witness ==
  /\ state.isDragging /\ hist.g.phase = "down"
  /\ hist.g.coasting0 /\ hist.ev = "move"
  /\ ~state.isAutoRotating /\ sched.resume = 0

====
